---- MODULE Spec2Model ----
(***************************************************************************)
(* Tallysheet document service (generateWord.py): the numeric validator,   *)
(* the image inserter, the two photo builders and the two FastAPI request  *)
(* handlers, with the temporary file each request creates, sends and has   *)
(* deleted by a background task.                                           *)
(*                                                                         *)
(* Text is a sequence of one-character strings; Python's None is the       *)
(* value None below, which is no text.                                     *)
(***************************************************************************)
EXTENDS Integers, Sequences, FiniteSets, TLC

\* ------------------------------------------------------------------ bounds
\* longest text drawn for a submitted field
MaxLen == 3
\* longest rule list handed to the validator besides the handler's table
MaxRules == 2

\* ------------------------------------------------------------ Python text
None == <<"None">>

Whitespace == {" ", "\t"}

Digits == {"0", "1", "2", "3", "4", "5", "6", "7", "8", "9"}

RECURSIVE LStrip(_)
LStrip(s) ==
  IF s # <<>> /\ Head(s) \in Whitespace THEN LStrip(Tail(s)) ELSE s

RECURSIVE RStrip(_)
RStrip(s) ==
  IF s # <<>> /\ s[Len(s)] \in Whitespace
    THEN RStrip(SubSeq(s, 1, Len(s) - 1))
    ELSE s

\* str.strip()
Strip(s) == RStrip(LStrip(s))

\* value is None or str(value).strip() == ""
IsBlank(value) == value = None \/ Strip(value) = <<>>

\* "_" * n
RECURSIVE Underscores(_)
Underscores(n) == IF n <= 0 THEN <<>> ELSE <<"_">> \o Underscores(n - 1)

DefaultPlaceholderLength == 6

\* variant: only None gets the placeholder
format_input_text_none_only(value, placeholder_length) ==
  IF value = None THEN Underscores(placeholder_length) ELSE value

\* variant: the placeholder has the default length whatever is asked
format_input_text_default_length(value, placeholder_length) ==
  IF IsBlank(value) THEN Underscores(DefaultPlaceholderLength) ELSE value

format_input_text(value, placeholder_length) ==
  IF IsBlank(value) THEN Underscores(placeholder_length) ELSE value

\* variant: the value is not trimmed before the test
format_checkbox_as_X_untrimmed(value) ==
  IF value = None \/ value = <<>> THEN <<"_">> ELSE <<"X">>

format_checkbox_as_X(value) ==
  IF IsBlank(value) THEN <<"_">> ELSE <<"X">>

\* --------------------------------------------------- int() and float()
\* digits, single underscores allowed between them
IsDigitPart(s) ==
  /\ s # <<>>
  /\ s[1] \in Digits
  /\ s[Len(s)] \in Digits
  /\ \A i \in 1..Len(s) : s[i] \in Digits \cup {"_"}
  /\ \A i \in 1..(Len(s) - 1) : ~(s[i] = "_" /\ s[i + 1] = "_")

DropSign(s) == IF s # <<>> /\ Head(s) \in {"+", "-"} THEN Tail(s) ELSE s

\* int(s) returns: optional sign and decimal digits, blanks around ignored
IntParses(s) == IsDigitPart(DropSign(Strip(s)))

IsMantissa(s) ==
  \/ IsDigitPart(s)
  \/ \E i \in 1..Len(s) :
       /\ s[i] = "."
       /\ LET a == SubSeq(s, 1, i - 1)
              b == SubSeq(s, i + 1, Len(s))
          IN /\ a = <<>> \/ IsDigitPart(a)
             /\ b = <<>> \/ IsDigitPart(b)
             /\ ~(a = <<>> /\ b = <<>>)

IsDecimalFloat(s) ==
  \/ IsMantissa(s)
  \/ \E i \in 1..Len(s) :
       /\ s[i] \in {"e", "E"}
       /\ IsMantissa(SubSeq(s, 1, i - 1))
       /\ IsDigitPart(DropSign(SubSeq(s, i + 1, Len(s))))

Lower(c) ==
  CASE c = "I" -> "i" [] c = "N" -> "n" [] c = "F" -> "f" [] c = "A" -> "a"
    [] c = "T" -> "t" [] c = "Y" -> "y" [] OTHER -> c

IsSpecialFloat(s) ==
  [i \in 1..Len(s) |-> Lower(s[i])] \in
    { <<"i", "n", "f">>, <<"n", "a", "n">>,
      <<"i", "n", "f", "i", "n", "i", "t", "y">> }

\* float(s) returns
FloatParses(s) ==
  LET t == DropSign(Strip(s)) IN IsDecimalFloat(t) \/ IsSpecialFloat(t)

\* ------------------------------------------------------------- validator
\* form.get(field)
Get(form, field) == IF field \in DOMAIN form THEN form[field] ELSE None

\* variant: is_int ignored, every rule parsed with float()
ParseRaises_float_only(s, is_int) == ~FloatParses(s)

\* the try block of one rule: TRUE when int(s) / float(s) raises
ParseRaises(s, is_int) == IF is_int THEN ~IntParses(s) ELSE ~FloatParses(s)

ErrorEntry(field, is_int, s) ==
  [field |-> field,
   msg   |-> [expected |-> IF is_int THEN "integer" ELSE "number", got |-> s]]

\* variant: the blank test without strip(), so that "   " reaches the parser
RECURSIVE validate_numeric_fields_unstripped(_, _)
validate_numeric_fields_unstripped(form, rules) ==
  IF rules = <<>> THEN <<>>
  ELSE
    LET field  == Head(rules)[1]
        is_int == Head(rules)[2]
        val    == Get(form, field)
        rest   == validate_numeric_fields_unstripped(form, Tail(rules))
    IN IF val = None \/ val = <<>> THEN rest
       ELSE IF Strip(val) = <<>> \/ ParseRaises(Strip(val), is_int)
         THEN <<ErrorEntry(field, is_int, Strip(val))>> \o rest
         ELSE rest

\* variant: returns at the first error
RECURSIVE validate_numeric_fields_failfast(_, _)
validate_numeric_fields_failfast(form, rules) ==
  IF rules = <<>> THEN <<>>
  ELSE
    LET field  == Head(rules)[1]
        is_int == Head(rules)[2]
        val    == Get(form, field)
    IN IF IsBlank(val) THEN validate_numeric_fields_failfast(form, Tail(rules))
       ELSE IF ParseRaises(Strip(val), is_int)
         THEN <<ErrorEntry(field, is_int, Strip(val))>>
         ELSE validate_numeric_fields_failfast(form, Tail(rules))

RECURSIVE validate_numeric_fields(_, _)
validate_numeric_fields(form, rules) ==
  IF rules = <<>> THEN <<>>
  ELSE
    LET field  == Head(rules)[1]
        is_int == Head(rules)[2]
        val    == Get(form, field)
        rest   == validate_numeric_fields(form, Tail(rules))
    IN IF IsBlank(val) THEN rest
       ELSE IF ParseRaises(Strip(val), is_int)
         THEN <<ErrorEntry(field, is_int, Strip(val))>> \o rest
         ELSE rest

\* the handler's rule table
numeric_rules ==
  << <<"latitude_derajat", FALSE>>, <<"latitude_menit", FALSE>>,
     <<"latitude_detik", FALSE>>, <<"longitude_derajat", FALSE>>,
     <<"longitude_menit", FALSE>>, <<"longitude_detik", FALSE>>,
     <<"elevasi_lahan", FALSE>>, <<"kedalaman_air_tanah", FALSE>>,
     <<"genangan", FALSE>>, <<"banjir_lama_hari", TRUE>>,
     <<"banjir_ketinggian_air", FALSE>>, <<"tinggi_muka_air_saluran", FALSE>>,
     <<"kualitas_air_tanah_ph", FALSE>>, <<"kualitas_air_saluran_ph", FALSE>>,
     <<"kualitas_air_tanah_ec", FALSE>>, <<"kualitas_air_saluran_ec", FALSE>>,
     <<"kualitas_air_tanah_tds", FALSE>>, <<"kualitas_air_saluran_tds", FALSE>>,
     <<"substratum_tanah_liat_ph", FALSE>>, <<"substratum_tanah_liat_ec", FALSE>>,
     <<"ketebalan_gambut_cm", FALSE>>, <<"kondisi_tanaman_subsiden_cm", FALSE>>,
     <<"hujan_lama_kejadian_jam", FALSE>>, <<"porositas_bobot_isi", FALSE>>,
     <<"kelengasan_kadar_air", FALSE>>, <<"c_organik", FALSE>> >>

\* ------------------------------------------------- the handler's signature
TextFields ==
  <<
    "latitude_derajat", "latitude_menit", "latitude_detik",
    "latitude_arah", "longitude_derajat", "longitude_menit",
    "longitude_detik", "longitude_arah", "elevasi_lahan",
    "kedalaman_air_tanah", "genangan", "banjir_bulan",
    "banjir_lama_hari", "banjir_ketinggian_air", "sumber_air_hujan",
    "sumber_air_limpasan_sungai", "sumber_air_kiriman_hulu", "sumber_air_lainnya_checkbox",
    "sumber_air_lainnya_text", "jenis_tanaman", "status_masyarakat",
    "status_perusahaan", "nama_perusahaan", "luas_konsesi",
    "flora_tidak_ada", "flora_ada", "flora_jenis",
    "fauna_tidak_ada", "fauna_ada", "fauna_jenis",
    "drainase_alami_tidak_ada", "drainase_alami_ada", "drainase_buatan_tidak_ada",
    "drainase_buatan_ada", "drainase_buatan_saluran_terbuka", "drainase_buatan_saluran_terkontrol",
    "tinggi_muka_air_saluran", "kualitas_air_tanah_ph", "kualitas_air_saluran_ph",
    "kualitas_air_tanah_ec", "kualitas_air_saluran_ec", "kualitas_air_tanah_tds",
    "kualitas_air_saluran_tds", "substratum_tanah_liat_ph", "substratum_tanah_liat_ec",
    "tipe_luapan_kemarau_a", "tipe_luapan_kemarau_b", "tipe_luapan_kemarau_c",
    "tipe_luapan_kemarau_d", "tipe_luapan_hujan_a", "tipe_luapan_hujan_b",
    "tipe_luapan_hujan_c", "tipe_luapan_hujan_d", "ketebalan_gambut_cm",
    "tingkat_perombakan_saprik", "tingkat_perombakan_hemik", "tingkat_perombakan_fibrik",
    "substratum_pasir_kwarsa", "substratum_clay_sedimen_sungai", "substratum_sedimen_berpirit",
    "substratum_granit", "substratum_lainnya_checkbox", "substratum_lainnya_text",
    "kerusakan_drainase_buatan", "kerusakan_terekspos_sedimen", "kondisi_tanaman_tidak_normal",
    "kondisi_tanaman_tidak_produktif", "kondisi_tanaman_miring_tumbang", "kondisi_tanaman_terjadi_subsiden_checkbox",
    "kondisi_tanaman_subsiden_cm", "kerapatan_tajuk", "kebakaran_tahun",
    "kebakaran_bulan", "kebakaran_tanggal", "kebakaran_lama_kejadian_bulan",
    "pemadaman_swadaya_masyarakat", "pemadaman_bantuan_pemerintah", "hujan_tanggal",
    "hujan_bulan", "hujan_tahun", "hujan_lama_kejadian_jam",
    "intensitas_hujan_tinggi", "intensitas_hujan_sedang", "intensitas_hujan_rendah",
    "porositas_bobot_isi", "kelengasan_kadar_air", "c_organik"
  >>

UploadFields ==
  <<
    "sketsa_lokasi_image", "foto_air_tanah_genangan_1", "foto_air_tanah_genangan_2",
    "foto_tutupan_lahan_1", "foto_tutupan_lahan_2", "foto_flora_fauna_1",
    "foto_flora_fauna_2", "foto_drainase_alami", "foto_drainase_buatan",
    "foto_kualitas_air_ec", "foto_kualitas_air_tds", "foto_kualitas_air_ph",
    "foto_tmat_1", "foto_tmat_2", "foto_ketebalan_gambut_1",
    "foto_ketebalan_gambut_2", "foto_substratum_ec", "foto_substratum_ph",
    "foto_kerusakan_lahan_gambut_1", "foto_kerusakan_lahan_gambut_2", "foto_karakteristik_tanah_pirit_1",
    "foto_karakteristik_tanah_pirit_2", "foto_porositas_kelengasan_1", "foto_porositas_kelengasan_2",
    "foto_tambahan_1", "foto_tambahan_2", "foto_tambahan_3",
    "foto_tambahan_4", "foto_tambahan_5", "foto_tambahan_6",
    "foto_tambahan_7", "foto_tambahan_8"
  >>

Range(seq) == {seq[i] : i \in 1..Len(seq)}

\* ------------------------------------------------------ python-docx values
\* a run of a paragraph; picture is None or the embedded image source
Run(text, size_pt, bold, italic, picture) ==
  [text |-> text, size_pt |-> size_pt, bold |-> bold, italic |-> italic,
   picture |-> picture]

\* paragraph.add_run(text) followed by set_run_style(run, size_pt, bold, italic)
set_run_style(text, size_pt, bold, italic) ==
  Run(text, size_pt, bold, italic, None)

\* paragraph.add_run() with nothing set
EmptyRun == Run("", 0, FALSE, FALSE, None)

Paragraph(alignment, runs) == [alignment |-> alignment, runs |-> runs]

\* the cell of a new table row: one empty paragraph
FreshCell == << Paragraph("NONE", <<>>) >>

\* image sources: None, bytes or a path; the second component says what the
\* bytes or the file hold
Bytes(content) == <<"bytes", content>>
Path(content) == <<"path", content>>

\* variant: "image_bytes_or_path is None"
IsFalsy_none_only(src) == src = None

\* "not image_bytes_or_path": None, b"" and "" are falsy
IsFalsy(src) == src = None \/ src = Bytes("empty") \/ src = Path("empty")

\* add_picture raises unless the bytes or the file are a decodable image
AddPictureRaises(src) == src \notin {Bytes("image"), Path("image")}

DefaultMaxWidthInches == 28  \* tenths of an inch: 2.8

NoImageText == "(no image)"
ErrorImageText == "(error inserting image)"

\* variant: add_picture outside any try block
_insert_image_in_cell_uncaught(cell, image_bytes_or_path, max_width_inches) ==
  LET cleared == [i \in 1..Len(cell) |-> [cell[i] EXCEPT !.runs = <<>>]]
      p == [cleared[1] EXCEPT !.alignment = "CENTER"]
      put(runs) == [cleared EXCEPT ![1] = [p EXCEPT !.runs = runs]]
  IN IF IsFalsy(image_bytes_or_path)
       THEN [cell |-> put(<< set_run_style(NoImageText, 10, FALSE, TRUE) >>),
             raised |-> FALSE]
     ELSE IF AddPictureRaises(image_bytes_or_path)
       THEN [cell |-> put(<< EmptyRun >>), raised |-> TRUE]
     ELSE [cell |-> put(<< Run("", 0, FALSE, FALSE,
                              <<image_bytes_or_path, max_width_inches>>) >>),
           raised |-> FALSE]

\* variant: no test for a missing source and no try block
_insert_image_in_cell_unguarded(cell, image_bytes_or_path, max_width_inches) ==
  LET cleared == [i \in 1..Len(cell) |-> [cell[i] EXCEPT !.runs = <<>>]]
      p == [cleared[1] EXCEPT !.alignment = "CENTER"]
      put(runs) == [cleared EXCEPT ![1] = [p EXCEPT !.runs = runs]]
  IN IF AddPictureRaises(image_bytes_or_path)
       THEN [cell |-> put(<< EmptyRun >>), raised |-> TRUE]
     ELSE [cell |-> put(<< Run("", 0, FALSE, FALSE,
                              <<image_bytes_or_path, max_width_inches>>) >>),
           raised |-> FALSE]

\* result of a call: the cell afterwards, and whether an exception left it
_insert_image_in_cell(cell, image_bytes_or_path, max_width_inches) ==
  LET cleared == [i \in 1..Len(cell) |-> [cell[i] EXCEPT !.runs = <<>>]]
      p == [cleared[1] EXCEPT !.alignment = "CENTER"]
      put(runs) == [cleared EXCEPT ![1] = [p EXCEPT !.runs = runs]]
  IN IF IsFalsy(image_bytes_or_path)
       THEN [cell |-> put(<< set_run_style(NoImageText, 10, FALSE, TRUE) >>),
             raised |-> FALSE]
     ELSE IF AddPictureRaises(image_bytes_or_path)
       THEN [cell |-> put(<< EmptyRun,
                             set_run_style(ErrorImageText, 9, FALSE, TRUE) >>),
             raised |-> FALSE]
     ELSE [cell |-> put(<< Run("", 0, FALSE, FALSE,
                              <<image_bytes_or_path, max_width_inches>>) >>),
           raised |-> FALSE]

\* ---------------------------------------------------------- photo builders
\* elements appended to the document body
ParagraphElement(item, par) == [type |-> "paragraph", item |-> item, par |-> par]
\* kind: "header", "title", "label" or "image"; keys: the images keys of an
\* image row's cells
TableRow(kind, item, keys, cells) ==
  [kind |-> kind, item |-> item, keys |-> keys, cells |-> cells]
TableElement(rows, raised) == [type |-> "table", rows |-> rows, raised |-> raised]

Heading(text, size_pt, alignment) ==
  << Paragraph(alignment, << set_run_style(text, size_pt, TRUE, FALSE) >>) >>

\* variant: every cell of the row is given the image of the row's first key
ImageCells_first_key(images, keys, width) ==
  [i \in 1..Len(keys) |-> _insert_image_in_cell(FreshCell, Get(images, keys[1]), width)]

\* a row of image cells for the given keys of images
ImageCells(images, keys, width) ==
  [i \in 1..Len(keys) |-> _insert_image_in_cell(FreshCell, Get(images, keys[i]), width)]

ImageRow(images, keys, width) ==
  TableRow("image", 0, keys,
           [i \in 1..Len(keys) |-> ImageCells(images, keys, width)[i].cell])

ImageRowRaised(images, keys, width) ==
  \E i \in 1..Len(keys) : ImageCells(images, keys, width)[i].raised

TitleRow(item, text) ==
  TableRow("title", item, <<>>, << Heading(text, 11, "LEFT") >>)

LabelRow(labels) ==
  TableRow("label", 0, <<>>,
           [i \in 1..Len(labels) |-> Heading(labels[i], 11, "CENTER")])

FotoLapanganKeys ==
  << <<"foto_air_tanah_genangan_1", "foto_air_tanah_genangan_2">>,
     <<"foto_tutupan_lahan_1", "foto_tutupan_lahan_2">>,
     <<"foto_flora_fauna_1", "foto_flora_fauna_2">>,
     <<"foto_drainase_alami", "foto_drainase_buatan">> >>

add_foto_lapangan_section(images, width) ==
  LET hdr == TableRow("header", 0, <<>>,
        << << Paragraph("CENTER",
                << set_run_style("B.\tFOTO  LAPANGAN", 12, TRUE, FALSE) >>),
              Paragraph("CENTER",
                << set_run_style("Seluruh hasil foto yang diambil harus jelas dan tidak membelakangi matahari",
                                 9, FALSE, TRUE) >>) >> >>)
      k == FotoLapanganKeys
  IN << TableElement(
          << hdr,
             TitleRow(1, "1.  Air tanah, genangan atau banjir"),
             ImageRow(images, k[1], width),
             TitleRow(2, "2.  Tutupan lahan, penggunaan lahan dan kondisinya"),
             ImageRow(images, k[2], width),
             TitleRow(3, "3.  Keberadaan flora dan fauna yang dilindungi"),
             ImageRow(images, k[3], width),
             TitleRow(4, "4.  Kondisi drainase alami dan drainase buatan"),
             LabelRow(<<"Drainase alami", "Drainase buatan">>),
             ImageRow(images, k[4], width) >>,
          \E i \in 1..Len(k) : ImageRowRaised(images, k[i], width)) >>

\* items 5..11: heading text, labels of the label row (none: <<>>), image keys
AdditionalPhotoItems ==
  << [item |-> 5, text |-> "5.  Kualitas Air/Kondisi Air Kanal",
      labels |-> <<"EC", "TDS", "pH">>,
      keys |-> <<"foto_kualitas_air_ec", "foto_kualitas_air_tds", "foto_kualitas_air_ph">>],
     [item |-> 6,
      text |-> "6.  Pengukuran Tinggi Muka Air Tanah (TMAT) pada lubang bor titik pengamatan",
      labels |-> <<>>,
      keys |-> <<"foto_tmat_1", "foto_tmat_2">>],
     [item |-> 7, text |-> "7.  Ketebalan gambut",
      labels |-> <<>>,
      keys |-> <<"foto_ketebalan_gambut_1", "foto_ketebalan_gambut_2">>],
     [item |-> 8, text |-> "8.  Karakteristik substratum dibawah lapisan gambut",
      labels |-> <<"EC", "pH">>,
      keys |-> <<"foto_substratum_ec", "foto_substratum_ph">>],
     [item |-> 9,
      text |-> "9.  Perkembangan kondisi atau tingkat kerusakan lahan gambut (fungsi lindung/fungsi budidaya)",
      labels |-> <<>>,
      keys |-> <<"foto_kerusakan_lahan_gambut_1", "foto_kerusakan_lahan_gambut_2">>],
     [item |-> 10, text |-> "10.  Karakteristik tanah dan kedalaman lapisan pirit",
      labels |-> <<>>,
      keys |-> <<"foto_karakteristik_tanah_pirit_1", "foto_karakteristik_tanah_pirit_2">>],
     [item |-> 11, text |-> "11.  Porositas dan Kelengasan",
      labels |-> <<>>,
      keys |-> <<"foto_porositas_kelengasan_1", "foto_porositas_kelengasan_2">>] >>

\* [tambahan_keys[i:i+2] for i in range(0, 8, 2)]
TambahanPairs ==
  << <<"foto_tambahan_1", "foto_tambahan_2">>,
     <<"foto_tambahan_3", "foto_tambahan_4">>,
     <<"foto_tambahan_5", "foto_tambahan_6">>,
     <<"foto_tambahan_7", "foto_tambahan_8">> >>

EmptyParagraph == ParagraphElement(0, Paragraph("NONE", <<>>))

PhotoItemBlock(images, it, width) ==
  << ParagraphElement(it.item,
       Paragraph("LEFT", << set_run_style(it.text, 11, TRUE, FALSE) >>)),
     TableElement(
       (IF it.labels = <<>> THEN <<>> ELSE << LabelRow(it.labels) >>)
         \o << ImageRow(images, it.keys, width) >>,
       ImageRowRaised(images, it.keys, width)),
     EmptyParagraph >>

TambahanBlock(images, pair, width) ==
  << TableElement(<< ImageRow(images, pair, width) >>,
                  ImageRowRaised(images, pair, width)),
     EmptyParagraph >>

RECURSIVE Flatten(_)
Flatten(seqs) == IF seqs = <<>> THEN <<>> ELSE Head(seqs) \o Flatten(Tail(seqs))

add_additional_photo_sections(images, width) ==
  Flatten([i \in 1..Len(AdditionalPhotoItems) |->
             PhotoItemBlock(images, AdditionalPhotoItems[i], width)])
    \o << ParagraphElement(12,
            Paragraph("LEFT", << set_run_style("12.  Foto Tambahan", 11, TRUE, FALSE) >>)) >>
    \o Flatten([i \in 1..Len(TambahanPairs) |->
                  TambahanBlock(images, TambahanPairs[i], width)])

\* -------------------------------------------------------- section builders
\* the calls of the handlers, in their order, with the fields each is passed
SectionBuilders ==
  <<
    [name |-> "add_formulir_tallysheet", nomor |-> "1",
     args |-> <<
           "latitude_derajat", "latitude_menit", "latitude_detik",
           "latitude_arah", "longitude_derajat", "longitude_menit",
           "longitude_detik", "longitude_arah" >>],
    [name |-> "add_elevasi_lahan_row", nomor |-> "2",
     args |-> <<
           "elevasi_lahan" >>],
    [name |-> "add_kondisi_air_tanah_row", nomor |-> "-",
     args |-> <<
           "kedalaman_air_tanah", "genangan", "banjir_bulan",
           "banjir_lama_hari", "banjir_ketinggian_air",
           "sumber_air_hujan", "sumber_air_limpasan_sungai",
           "sumber_air_kiriman_hulu", "sumber_air_lainnya_checkbox",
           "sumber_air_lainnya_text" >>],
    [name |-> "add_tutupan_lahan_row", nomor |-> "4",
     args |-> <<
           "jenis_tanaman", "status_masyarakat",
           "status_perusahaan", "nama_perusahaan", "luas_konsesi" >>],
    [name |-> "add_flora_fauna_row", nomor |-> "5",
     args |-> <<
           "flora_tidak_ada", "flora_ada", "flora_jenis",
           "fauna_tidak_ada", "fauna_ada", "fauna_jenis" >>],
    [name |-> "add_drainase_row", nomor |-> "6",
     args |-> <<
           "drainase_alami_tidak_ada", "drainase_alami_ada",
           "drainase_buatan_tidak_ada", "drainase_buatan_ada",
           "drainase_buatan_saluran_terbuka",
           "drainase_buatan_saluran_terkontrol",
           "tinggi_muka_air_saluran" >>],
    [name |-> "add_kualitas_air_row", nomor |-> "7",
     args |-> <<
           "kualitas_air_tanah_ph", "kualitas_air_saluran_ph",
           "kualitas_air_tanah_ec", "kualitas_air_saluran_ec",
           "kualitas_air_tanah_tds", "kualitas_air_saluran_tds" >>],
    [name |-> "add_substratum_tanah_liat_row", nomor |-> "8",
     args |-> <<
           "substratum_tanah_liat_ph", "substratum_tanah_liat_ec" >>],
    [name |-> "add_tipe_luapan_row", nomor |-> "9",
     args |-> <<
           "tipe_luapan_kemarau_a", "tipe_luapan_kemarau_b",
           "tipe_luapan_kemarau_c", "tipe_luapan_kemarau_d",
           "tipe_luapan_hujan_a", "tipe_luapan_hujan_b",
           "tipe_luapan_hujan_c", "tipe_luapan_hujan_d" >>],
    [name |-> "add_ketebalan_gambut_row", nomor |-> "10",
     args |-> <<
           "ketebalan_gambut_cm", "tingkat_perombakan_saprik",
           "tingkat_perombakan_hemik", "tingkat_perombakan_fibrik" >>],
    [name |-> "add_substratum_bawah_gambut_row", nomor |-> "11",
     args |-> <<
           "substratum_pasir_kwarsa",
           "substratum_clay_sedimen_sungai",
           "substratum_sedimen_berpirit", "substratum_granit",
           "substratum_lainnya_checkbox", "substratum_lainnya_text" >>],
    [name |-> "add_perkembangan_kerusakan_row", nomor |-> "12",
     args |-> <<
           "kerusakan_drainase_buatan",
           "kerusakan_terekspos_sedimen",
           "kondisi_tanaman_tidak_normal",
           "kondisi_tanaman_tidak_produktif",
           "kondisi_tanaman_miring_tumbang",
           "kondisi_tanaman_terjadi_subsiden_checkbox",
           "kondisi_tanaman_subsiden_cm", "kerapatan_tajuk" >>],
    [name |-> "add_informasi_kebakaran_row", nomor |-> "13",
     args |-> <<
           "kebakaran_tahun", "kebakaran_bulan",
           "kebakaran_tanggal", "kebakaran_lama_kejadian_bulan",
           "pemadaman_swadaya_masyarakat",
           "pemadaman_bantuan_pemerintah", "hujan_tanggal",
           "hujan_bulan", "hujan_tahun", "hujan_lama_kejadian_jam",
           "intensitas_hujan_tinggi", "intensitas_hujan_sedang",
           "intensitas_hujan_rendah" >>],
    [name |-> "add_analisis_lab_header", nomor |-> "-",
     args |-> <<
 >>],
    [name |-> "add_porositas_row", nomor |-> "14",
     args |-> <<
           "porositas_bobot_isi" >>],
    [name |-> "add_kelengasan_row", nomor |-> "15",
     args |-> <<
           "kelengasan_kadar_air" >>],
    [name |-> "add_c_organik_row", nomor |-> "16",
     args |-> <<
           "c_organik" >>],
    [name |-> "add_sketsa_lokasi_row", nomor |-> "-",
     args |-> << >>]
  >>

\* the calls of generate_sample, in their order, with the keyword arguments
\* each is given
SampleSectionBuilders ==
  <<
    [name |-> "add_formulir_tallysheet", nomor |-> "1",
     args |-> <<
           "latitude_derajat", "latitude_menit", "latitude_detik",
           "latitude_arah", "longitude_derajat", "longitude_menit",
           "longitude_detik", "longitude_arah" >>],
    [name |-> "add_elevasi_lahan_row", nomor |-> "2",
     args |-> <<
           "elevasi_lahan" >>],
    [name |-> "add_kondisi_air_tanah_row", nomor |-> "-",
     args |-> <<
           "kedalaman_air_tanah", "genangan", "banjir_bulan",
           "banjir_lama_hari", "banjir_ketinggian_air", "sumber_air_hujan",
           "sumber_air_limpasan_sungai", "sumber_air_kiriman_hulu",
           "sumber_air_lainnya_checkbox", "sumber_air_lainnya_text" >>],
    [name |-> "add_tutupan_lahan_row", nomor |-> "4",
     args |-> <<
           "jenis_tanaman", "status_masyarakat", "status_perusahaan",
           "nama_perusahaan", "luas_konsesi" >>],
    [name |-> "add_flora_fauna_row", nomor |-> "5",
     args |-> <<
           "flora_tidak_ada", "flora_ada", "flora_jenis",
           "fauna_tidak_ada", "fauna_ada", "fauna_jenis" >>],
    [name |-> "add_drainase_row", nomor |-> "6",
     args |-> <<
           "drainase_alami_tidak_ada", "drainase_alami_ada",
           "drainase_buatan_tidak_ada", "drainase_buatan_ada",
           "drainase_buatan_saluran_terbuka",
           "drainase_buatan_saluran_terkontrol", "tinggi_muka_air_saluran" >>],
    [name |-> "add_kualitas_air_row", nomor |-> "7",
     args |-> <<
           "kualitas_air_tanah_ph", "kualitas_air_saluran_ph",
           "kualitas_air_tanah_ec", "kualitas_air_saluran_ec",
           "kualitas_air_tanah_tds", "kualitas_air_saluran_tds" >>],
    [name |-> "add_substratum_tanah_liat_row", nomor |-> "8",
     args |-> <<
           "substratum_tanah_liat_ph", "substratum_tanah_liat_ec" >>],
    [name |-> "add_tipe_luapan_row", nomor |-> "9",
     args |-> <<
           "tipe_luapan_kemarau_a", "tipe_luapan_kemarau_b",
           "tipe_luapan_kemarau_c", "tipe_luapan_kemarau_d",
           "tipe_luapan_hujan_a", "tipe_luapan_hujan_b",
           "tipe_luapan_hujan_c", "tipe_luapan_hujan_d" >>],
    [name |-> "add_ketebalan_gambut_row", nomor |-> "10",
     args |-> <<
           "ketebalan_gambut_cm", "tingkat_perombakan_saprik",
           "tingkat_perombakan_hemik", "tingkat_perombakan_fibrik" >>],
    [name |-> "add_substratum_bawah_gambut_row", nomor |-> "11",
     args |-> <<
           "substratum_pasir_kwarsa", "substratum_clay_sedimen_sungai",
           "substratum_sedimen_berpirit", "substratum_granit",
           "substratum_lainnya_checkbox", "substratum_lainnya_text" >>],
    [name |-> "add_perkembangan_kerusakan_row", nomor |-> "12",
     args |-> <<
           "kerusakan_drainase_buatan", "kerusakan_terekspos_sedimen",
           "kondisi_tanaman_tidak_normal",
           "kondisi_tanaman_tidak_produktif",
           "kondisi_tanaman_miring_tumbang",
           "kondisi_tanaman_terjadi_subsiden_checkbox",
           "kondisi_tanaman_subsiden_cm", "kerapatan_tajuk" >>],
    [name |-> "add_informasi_kebakaran_row", nomor |-> "13",
     args |-> <<
           "kebakaran_tahun", "kebakaran_bulan", "kebakaran_tanggal",
           "kebakaran_lama_kejadian_bulan", "pemadaman_swadaya_masyarakat",
           "pemadaman_bantuan_pemerintah", "hujan_tanggal", "hujan_bulan",
           "hujan_tahun", "hujan_lama_kejadian_jam",
           "intensitas_hujan_tinggi", "intensitas_hujan_sedang",
           "intensitas_hujan_rendah" >>],
    [name |-> "add_analisis_lab_header", nomor |-> "-",
     args |-> << >>],
    [name |-> "add_porositas_row", nomor |-> "14",
     args |-> <<
           "porositas_bobot_isi" >>],
    [name |-> "add_kelengasan_row", nomor |-> "15",
     args |-> <<
           "kelengasan_kadar_air" >>],
    [name |-> "add_c_organik_row", nomor |-> "16",
     args |-> <<
           "c_organik" >>],
    [name |-> "add_sketsa_lokasi_row", nomor |-> "-",
     args |-> << >>]
  >>

\* fields the paper form shows as a tick box
CheckboxFields ==
  { "sumber_air_hujan", "sumber_air_limpasan_sungai", "sumber_air_kiriman_hulu",
    "sumber_air_lainnya_checkbox", "status_masyarakat", "status_perusahaan",
    "flora_tidak_ada", "flora_ada", "fauna_tidak_ada", "fauna_ada",
    "drainase_alami_tidak_ada", "drainase_alami_ada",
    "drainase_buatan_tidak_ada", "drainase_buatan_ada",
    "drainase_buatan_saluran_terbuka", "drainase_buatan_saluran_terkontrol",
    "tipe_luapan_kemarau_a", "tipe_luapan_kemarau_b", "tipe_luapan_kemarau_c",
    "tipe_luapan_kemarau_d", "tipe_luapan_hujan_a", "tipe_luapan_hujan_b",
    "tipe_luapan_hujan_c", "tipe_luapan_hujan_d",
    "tingkat_perombakan_saprik", "tingkat_perombakan_hemik",
    "tingkat_perombakan_fibrik", "substratum_pasir_kwarsa",
    "substratum_clay_sedimen_sungai", "substratum_sedimen_berpirit",
    "substratum_granit", "substratum_lainnya_checkbox",
    "kerusakan_drainase_buatan", "kerusakan_terekspos_sedimen",
    "kondisi_tanaman_tidak_normal", "kondisi_tanaman_tidak_produktif",
    "kondisi_tanaman_miring_tumbang",
    "kondisi_tanaman_terjadi_subsiden_checkbox",
    "pemadaman_swadaya_masyarakat", "pemadaman_bantuan_pemerintah",
    "intensitas_hujan_tinggi", "intensitas_hujan_sedang",
    "intensitas_hujan_rendah" }

\* the text of the data cell of one field
DataCell(field, value) ==
  IF field \in CheckboxFields
    THEN format_checkbox_as_X(value)
    ELSE format_input_text(value, DefaultPlaceholderLength)

\* the block one section builder appends: a data cell per field it is passed,
\* and for the site sketch one image cell
SectionBlock(b, values, sketsa_image_bytes) ==
  LET img == _insert_image_in_cell(FreshCell, sketsa_image_bytes, DefaultMaxWidthInches)
      has_image == b.name = "add_sketsa_lokasi_row"
  IN [type |-> "section", name |-> b.name, nomor |-> b.nomor,
      passed |-> b.args,
      cells |-> [f \in Range(b.args) |-> DataCell(f, values[f])],
      image |-> IF has_image THEN img.cell ELSE <<>>,
      raised |-> has_image /\ img.raised]

\* generate_sample's hardcoded values
SampleFieldValues ==
  "latitude_derajat" :> <<"1">> @@
  "latitude_menit" :> <<"2", "3">> @@
  "latitude_detik" :> <<"4", "5">> @@
  "latitude_arah" :> <<"L", "S">> @@
  "longitude_derajat" :> <<"1", "0", "2">> @@
  "longitude_menit" :> <<"1", "0">> @@
  "longitude_detik" :> <<"1", "2">> @@
  "longitude_arah" :> <<"B", "T">> @@
  "elevasi_lahan" :> <<"1", "2">> @@
  "kedalaman_air_tanah" :> <<"4", "5">> @@
  "genangan" :> <<"1", "0">> @@
  "banjir_bulan" :> <<"J", "a", "n", "u", "a", "r", "i">> @@
  "banjir_lama_hari" :> <<"5">> @@
  "banjir_ketinggian_air" :> <<"2", "0">> @@
  "sumber_air_hujan" :> <<"o", "n">> @@
  "sumber_air_limpasan_sungai" :> <<>> @@
  "sumber_air_kiriman_hulu" :> <<"o", "n">> @@
  "sumber_air_lainnya_checkbox" :> <<>> @@
  "sumber_air_lainnya_text" :> <<"d", "r", "a", "i", "n", "a", "s", "e", " ", "t", "e", "r", "s", "u", "m", "b", "a", "t">> @@
  "jenis_tanaman" :> <<"K", "e", "l", "a", "p", "a">> @@
  "status_masyarakat" :> <<"o", "n">> @@
  "status_perusahaan" :> <<>> @@
  "nama_perusahaan" :> <<>> @@
  "luas_konsesi" :> <<>> @@
  "flora_tidak_ada" :> <<>> @@
  "flora_ada" :> <<"o", "n">> @@
  "flora_jenis" :> <<"R", "a", "f", "f", "l", "e", "s", "i", "a">> @@
  "fauna_tidak_ada" :> <<>> @@
  "fauna_ada" :> <<"o", "n">> @@
  "fauna_jenis" :> <<"O", "r", "a", "n", "g", "u", "t", "a", "n">> @@
  "drainase_alami_tidak_ada" :> <<>> @@
  "drainase_alami_ada" :> <<"o", "n">> @@
  "drainase_buatan_tidak_ada" :> <<>> @@
  "drainase_buatan_ada" :> <<"o", "n">> @@
  "drainase_buatan_saluran_terbuka" :> <<"o", "n">> @@
  "drainase_buatan_saluran_terkontrol" :> <<>> @@
  "tinggi_muka_air_saluran" :> <<"3", "0">> @@
  "kualitas_air_tanah_ph" :> <<"4", ".", "2">> @@
  "kualitas_air_saluran_ph" :> <<"5", ".", "6">> @@
  "kualitas_air_tanah_ec" :> <<"1", "2", "0">> @@
  "kualitas_air_saluran_ec" :> <<"2", "0", "0">> @@
  "kualitas_air_tanah_tds" :> <<"5", "0">> @@
  "kualitas_air_saluran_tds" :> <<"8", "0">> @@
  "substratum_tanah_liat_ph" :> <<"6", ".", "6">> @@
  "substratum_tanah_liat_ec" :> <<"3", "0", "0">> @@
  "tipe_luapan_kemarau_a" :> <<"o", "n">> @@
  "tipe_luapan_kemarau_b" :> <<>> @@
  "tipe_luapan_kemarau_c" :> <<>> @@
  "tipe_luapan_kemarau_d" :> <<>> @@
  "tipe_luapan_hujan_a" :> <<>> @@
  "tipe_luapan_hujan_b" :> <<"o", "n">> @@
  "tipe_luapan_hujan_c" :> <<>> @@
  "tipe_luapan_hujan_d" :> <<>> @@
  "ketebalan_gambut_cm" :> <<"1", "2", "0">> @@
  "tingkat_perombakan_saprik" :> <<"o", "n">> @@
  "tingkat_perombakan_hemik" :> <<>> @@
  "tingkat_perombakan_fibrik" :> <<>> @@
  "substratum_pasir_kwarsa" :> <<"o", "n">> @@
  "substratum_clay_sedimen_sungai" :> <<>> @@
  "substratum_sedimen_berpirit" :> <<>> @@
  "substratum_granit" :> <<>> @@
  "substratum_lainnya_checkbox" :> <<>> @@
  "substratum_lainnya_text" :> <<>> @@
  "kerusakan_drainase_buatan" :> <<"o", "n">> @@
  "kerusakan_terekspos_sedimen" :> <<>> @@
  "kondisi_tanaman_tidak_normal" :> <<"o", "n">> @@
  "kondisi_tanaman_tidak_produktif" :> <<>> @@
  "kondisi_tanaman_miring_tumbang" :> <<>> @@
  "kondisi_tanaman_terjadi_subsiden_checkbox" :> <<>> @@
  "kondisi_tanaman_subsiden_cm" :> <<>> @@
  "kerapatan_tajuk" :> <<"3">> @@
  "kebakaran_tahun" :> <<"2", "0", "2", "3">> @@
  "kebakaran_bulan" :> <<"A", "g", "u", "s", "t", "u", "s">> @@
  "kebakaran_tanggal" :> <<"1", "5">> @@
  "kebakaran_lama_kejadian_bulan" :> <<"1">> @@
  "pemadaman_swadaya_masyarakat" :> <<"o", "n">> @@
  "pemadaman_bantuan_pemerintah" :> <<>> @@
  "hujan_tanggal" :> <<"1", "0">> @@
  "hujan_bulan" :> <<"0", "7">> @@
  "hujan_tahun" :> <<"2", "0", "2", "4">> @@
  "hujan_lama_kejadian_jam" :> <<"6">> @@
  "intensitas_hujan_tinggi" :> <<"o", "n">> @@
  "intensitas_hujan_sedang" :> <<>> @@
  "intensitas_hujan_rendah" :> <<>> @@
  "porositas_bobot_isi" :> <<"4", "5">> @@
  "kelengasan_kadar_air" :> <<"8", "5">> @@
  "c_organik" :> <<"5", "8">>

\* ------------------------------------------------------------------ state
\* concurrent requests in flight at most
NumRequests == 2
\* chunks in which a file response is read and sent
NumChunks == 1

Requests == 1..NumRequests

\* names tempfile can give a new file, and values uuid4 can return
TempNames == 1..NumRequests
UUIDs == {"u1", "u2"}

VARIABLES
  pc,                \* where each request is in its handler or in the framework
  kind,              \* "full" (POST /generate-full-section) or "sample"
  form,              \* dict(locals()) of the full handler
  errors,            \* result of validate_numeric_fields
  doc,               \* body of the Document being built
  images,            \* photo bytes read from the uploads
  tmpf_name,         \* path of the request's temporary file
  out_name,          \* download filename
  background_tasks,  \* paths handed to _cleanup by add_task
  response,          \* what the handler returned
  received,          \* what the client has read of the response body
  fs,                \* the temporary directory: path -> file
  v_pc, v_form, v_rules, v_errors,  \* one call of validate_numeric_fields
  h_pc, h_fn, h_args, h_result      \* one call of another helper function

vars ==
  << pc, kind, form, errors, doc, images, tmpf_name, out_name,
     background_tasks, response, received, fs,
     v_pc, v_form, v_rules, v_errors,
     h_pc, h_fn, h_args, h_result >>

handlerVars ==
  << pc, kind, form, errors, doc, images, tmpf_name, out_name,
     background_tasks, response, received, fs >>

validatorVars == << v_pc, v_form, v_rules, v_errors >>

helperVars == << h_pc, h_fn, h_args, h_result >>

EmptyDict == [k \in {} |-> None]

NoResponse ==
  [status |-> 0, type |-> "none", media_type |-> "", detail |-> <<>>,
   path |-> 0, filename |-> <<>>]

NoFile == [state |-> "absent", by |-> 0]

DocxMediaType ==
  "application/vnd.openxmlformats-officedocument.wordprocessingml.document"

\* ----------------------------------------------------------- submissions
TextFieldSet == Range(TextFields)
UploadFieldSet == Range(UploadFields)
FormKeys == TextFieldSet \cup UploadFieldSet \cup {"background_tasks"}

\* an UploadFile and what reading it gives: b"", image bytes, other bytes,
\* or an exception
UploadFile(content) == <<"UploadFile", content>>
UploadValues ==
  { None, UploadFile("empty"), UploadFile("image"), UploadFile("garbage"),
    UploadFile("readfails") }

\* texts a client submits in a field
FieldTexts ==
  { None, <<>>, <<" ">>, <<"5">>, <<"5", ".", "5">>, <<"a", "b", "c">>,
    <<" ", "7", " ">>, <<"o", "n">> }
TextBackgrounds == { None, <<>>, <<"5">>, <<"x">> }

Submission(texts, uploads) ==
  [k \in FormKeys |->
     IF k \in TextFieldSet THEN texts[k]
     ELSE IF k \in UploadFieldSet THEN uploads[k]
     ELSE <<"BackgroundTasks">>]

\* every field holds bg, except g which holds v
Override(keys, g, v, bg) == [k \in keys |-> IF k = g THEN v ELSE bg]

\* every kind of upload in one request, no text
MixedSubmission ==
  Submission(Override(TextFieldSet, "", None, None),
             [k \in UploadFieldSet |->
                CASE k \in {"sketsa_lokasi_image", "foto_tmat_1"} -> UploadFile("image")
                  [] k \in {"foto_tmat_2", "foto_tambahan_8"} -> UploadFile("garbage")
                  [] k \in {"foto_drainase_alami"} -> UploadFile("empty")
                  [] k \in {"foto_drainase_buatan"} -> UploadFile("readfails")
                  [] OTHER -> None])

Submissions ==
  { Submission(Override(TextFieldSet, g, v, bg),
               Override(UploadFieldSet, "", None, None)) :
      g \in TextFieldSet, v \in FieldTexts, bg \in TextBackgrounds }
  \cup
  { Submission(Override(TextFieldSet, "", None, bg),
               Override(UploadFieldSet, g, v, ubg)) :
      g \in UploadFieldSet, v \in UploadValues, ubg \in UploadValues,
      bg \in {None, <<"5">>} }
  \cup { MixedSubmission }

\* all fields empty and no files
EmptySubmission ==
  Submission(Override(TextFieldSet, "", None, None),
             Override(UploadFieldSet, "", None, None))

ConcurrentSubmissions ==
  { EmptySubmission,
    Submission(Override(TextFieldSet, "banjir_lama_hari", <<"a", "b", "c">>, None),
               Override(UploadFieldSet, "", None, None)) }

\* ------------------------------------------------------------------- Init
HandlersIdle ==
  /\ pc = [r \in Requests |-> "idle"]
  /\ kind = [r \in Requests |-> "none"]
  /\ form = [r \in Requests |-> EmptyDict]
  /\ errors = [r \in Requests |-> <<>>]
  /\ doc = [r \in Requests |-> <<>>]
  /\ images = [r \in Requests |-> EmptyDict]
  /\ tmpf_name = [r \in Requests |-> 0]
  /\ out_name = [r \in Requests |-> <<>>]
  /\ background_tasks = [r \in Requests |-> <<>>]
  /\ response = [r \in Requests |-> NoResponse]
  /\ received = [r \in Requests |-> <<>>]
  /\ fs = [p \in TempNames |-> NoFile]

ValidatorOff ==
  /\ v_pc = "off"
  /\ v_form = EmptyDict
  /\ v_rules = <<>>
  /\ v_errors = <<>>

HelpersOff ==
  /\ h_pc = "off"
  /\ h_fn = ""
  /\ h_args = <<>>
  /\ h_result = <<>>

Init == HandlersIdle /\ ValidatorOff /\ HelpersOff

\* ------------------------------------------------ generate_full_section
\* the request arrives and FastAPI binds the parameters; form = dict(locals())
ReceiveFull(r, submissions) ==
  /\ pc[r] = "idle"
  /\ \E s \in submissions : form' = [form EXCEPT ![r] = s]
  /\ kind' = [kind EXCEPT ![r] = "full"]
  /\ pc' = [pc EXCEPT ![r] = "validate"]
  /\ UNCHANGED << errors, doc, images, tmpf_name, out_name, background_tasks,
                  response, received, fs, validatorVars, helperVars >>

JSONResponse(status_code, detail) ==
  [status |-> status_code, type |-> "json", media_type |-> "application/json",
   detail |-> detail, path |-> 0, filename |-> <<>>]

\* variant: the errors are computed but the handler does not return on them
Validate_no_return(r) ==
  /\ pc[r] = "validate"
  /\ errors' = [errors EXCEPT ![r] = validate_numeric_fields(form[r], numeric_rules)]
  /\ pc' = [pc EXCEPT ![r] = "build"]
  /\ UNCHANGED << kind, form, doc, images, tmpf_name, out_name,
                  background_tasks, response, received, fs, validatorVars, helperVars >>

\* variant: the rule table also has a line for the direction field
Validate_arah_ruled(r) ==
  /\ pc[r] = "validate"
  /\ LET errs == validate_numeric_fields(form[r],
                   numeric_rules \o << <<"latitude_arah", FALSE>> >>)
     IN /\ errors' = [errors EXCEPT ![r] = errs]
        /\ IF errs # <<>>
             THEN /\ response' = [response EXCEPT ![r] = JSONResponse(422, errs)]
                  /\ pc' = [pc EXCEPT ![r] = "respond"]
             ELSE /\ response' = response
                  /\ pc' = [pc EXCEPT ![r] = "build"]
  /\ UNCHANGED << kind, form, doc, images, tmpf_name, out_name,
                  background_tasks, received, fs, validatorVars, helperVars >>

\* errors = validate_numeric_fields(form, numeric_rules); if errors: return 422
Validate(r) ==
  /\ pc[r] = "validate"
  /\ LET errs == validate_numeric_fields(form[r], numeric_rules)
     IN /\ errors' = [errors EXCEPT ![r] = errs]
        /\ IF errs # <<>>
             THEN /\ response' = [response EXCEPT ![r] = JSONResponse(422, errs)]
                  /\ pc' = [pc EXCEPT ![r] = "respond"]
             ELSE /\ response' = response
                  /\ pc' = [pc EXCEPT ![r] = "build"]
  /\ UNCHANGED << kind, form, doc, images, tmpf_name, out_name,
                  background_tasks, received, fs, validatorVars, helperVars >>

\* await upload.read(): the bytes, or None when reading raises
ReadUpload(upload) ==
  IF upload = UploadFile("readfails") THEN None ELSE Bytes(upload[2])

\* hasattr(upload, "read")
HasRead(upload) == Len(upload) = 2 /\ upload[1] = "UploadFile"

\* the sketch bytes read before add_sketsa_lokasi_row
SketsaBytes(f) ==
  IF f["sketsa_lokasi_image"] # None
    THEN ReadUpload(f["sketsa_lokasi_image"])
    ELSE None

Sections(values, sketsa_image_bytes) ==
  [i \in 1..Len(SectionBuilders) |->
     SectionBlock(SectionBuilders[i], values, sketsa_image_bytes)]

SampleSections(values, sketsa_image_bytes) ==
  [i \in 1..Len(SampleSectionBuilders) |->
     SectionBlock(SampleSectionBuilders[i], values, sketsa_image_bytes)]

AnyRaised(elements) ==
  \E i \in 1..Len(elements) :
    elements[i].type \in {"section", "table"} /\ elements[i].raised

\* an exception left the handler: the framework answers 500
ServerError ==
  [status |-> 500, type |-> "error", media_type |-> "text/plain",
   detail |-> <<>>, path |-> 0, filename |-> <<>>]

\* variant: the comprehension stops one short, range(1,8)
photo_fields_short ==
  << "foto_air_tanah_genangan_1", "foto_air_tanah_genangan_2",
     "foto_tutupan_lahan_1", "foto_tutupan_lahan_2",
     "foto_flora_fauna_1", "foto_flora_fauna_2",
     "foto_drainase_alami", "foto_drainase_buatan",
     "foto_kualitas_air_ec", "foto_kualitas_air_tds", "foto_kualitas_air_ph",
     "foto_tmat_1", "foto_tmat_2",
     "foto_ketebalan_gambut_1", "foto_ketebalan_gambut_2",
     "foto_substratum_ec", "foto_substratum_ph",
     "foto_kerusakan_lahan_gambut_1", "foto_kerusakan_lahan_gambut_2",
     "foto_karakteristik_tanah_pirit_1", "foto_karakteristik_tanah_pirit_2",
     "foto_porositas_kelengasan_1", "foto_porositas_kelengasan_2",
     "foto_tambahan_1", "foto_tambahan_2", "foto_tambahan_3", "foto_tambahan_4",
     "foto_tambahan_5", "foto_tambahan_6", "foto_tambahan_7" >>

photo_fields ==
  << "foto_air_tanah_genangan_1", "foto_air_tanah_genangan_2",
     "foto_tutupan_lahan_1", "foto_tutupan_lahan_2",
     "foto_flora_fauna_1", "foto_flora_fauna_2",
     "foto_drainase_alami", "foto_drainase_buatan",
     "foto_kualitas_air_ec", "foto_kualitas_air_tds", "foto_kualitas_air_ph",
     "foto_tmat_1", "foto_tmat_2",
     "foto_ketebalan_gambut_1", "foto_ketebalan_gambut_2",
     "foto_substratum_ec", "foto_substratum_ph",
     "foto_kerusakan_lahan_gambut_1", "foto_kerusakan_lahan_gambut_2",
     "foto_karakteristik_tanah_pirit_1", "foto_karakteristik_tanah_pirit_2",
     "foto_porositas_kelengasan_1", "foto_porositas_kelengasan_2",
     "foto_tambahan_1", "foto_tambahan_2", "foto_tambahan_3", "foto_tambahan_4",
     "foto_tambahan_5", "foto_tambahan_6", "foto_tambahan_7", "foto_tambahan_8" >>

\* the loop over photo_fields filling images
ReadPhotos(f) ==
  [fname \in Range(photo_fields) |->
     LET upload == Get(f, fname)
     IN IF HasRead(upload) THEN ReadUpload(upload) ELSE None]

\* add_foto_lapangan_section(doc, images); add_additional_photo_sections(doc, images)
Photos(imgs) ==
  add_foto_lapangan_section(imgs, DefaultMaxWidthInches)
    \o add_additional_photo_sections(imgs, DefaultMaxWidthInches)

\* doc = Document(); the eighteen section builders (the sketch read before
\* the last), the photo reads and the two photo builders
BuildDocument(r) ==
  /\ pc[r] = "build"
  /\ kind[r] = "full"
  /\ LET imgs == ReadPhotos(form[r])
         body == Sections(form[r], SketsaBytes(form[r])) \o Photos(imgs)
     IN /\ images' = [images EXCEPT ![r] = imgs]
        /\ doc' = [doc EXCEPT ![r] = body]
        /\ IF AnyRaised(body)
             THEN /\ pc' = [pc EXCEPT ![r] = "respond"]
                  /\ response' = [response EXCEPT ![r] = ServerError]
             ELSE /\ pc' = [pc EXCEPT ![r] = "tempfile"]
                  /\ response' = response
  /\ UNCHANGED << kind, form, errors, tmpf_name, out_name,
                  background_tasks, received, fs, validatorVars, helperVars >>

\* variant: the path is opened without exclusive creation
CreateTempFile_not_exclusive(r) ==
  /\ pc[r] = "tempfile"
  /\ \E p \in TempNames :
       /\ fs' = [fs EXCEPT ![p] = [state |-> "empty", by |-> r]]
       /\ tmpf_name' = [tmpf_name EXCEPT ![r] = p]
  /\ pc' = [pc EXCEPT ![r] = "save"]
  /\ UNCHANGED << kind, form, errors, doc, images, out_name,
                  background_tasks, response, received, validatorVars, helperVars >>

\* tempfile.NamedTemporaryFile(delete=False, suffix=".docx"); tmpf.close():
\* a file that did not exist is created, empty
CreateTempFile(r) ==
  /\ pc[r] = "tempfile"
  /\ \E p \in TempNames :
       /\ fs[p].state = "absent"
       /\ fs' = [fs EXCEPT ![p] = [state |-> "empty", by |-> r]]
       /\ tmpf_name' = [tmpf_name EXCEPT ![r] = p]
  /\ pc' = [pc EXCEPT ![r] = "save"]
  /\ UNCHANGED << kind, form, errors, doc, images, out_name,
                  background_tasks, response, received, validatorVars, helperVars >>

\* variant: add_task(_cleanup, tmpf_name) moved before doc.save
SaveBegin_task_first(r) ==
  /\ pc[r] = "save"
  /\ fs' = [fs EXCEPT ![tmpf_name[r]] = [state |-> "partial", by |-> r]]
  /\ background_tasks' = [background_tasks EXCEPT ![r] = Append(@, tmpf_name[r])]
  /\ pc' = [pc EXCEPT ![r] = "saving"]
  /\ UNCHANGED << kind, form, errors, doc, images, tmpf_name, out_name,
                  response, received, validatorVars, helperVars >>

\* doc.save(tmpf_name) opens the path and starts writing
SaveBegin(r) ==
  /\ pc[r] = "save"
  /\ fs' = [fs EXCEPT ![tmpf_name[r]] = [state |-> "partial", by |-> r]]
  /\ pc' = [pc EXCEPT ![r] = "saving"]
  /\ UNCHANGED << kind, form, errors, doc, images, tmpf_name, out_name,
                  background_tasks, response, received, validatorVars, helperVars >>

FileResponse(path, filename) ==
  [status |-> 200, type |-> "file", media_type |-> DocxMediaType,
   detail |-> <<>>, path |-> path, filename |-> filename]

OutNamePrefix(k) == IF k = "sample" THEN "tallysheet_sample_" ELSE "tallysheet_"

\* variant: _cleanup(tmpf_name) called in the handler instead of add_task
Return_cleanup_now(r) ==
  /\ pc[r] = "saving"
  /\ \E u \in UUIDs :
       LET name == << OutNamePrefix(kind[r]), u, ".docx" >>
       IN /\ out_name' = [out_name EXCEPT ![r] = name]
          /\ response' = [response EXCEPT ![r] = FileResponse(tmpf_name[r], name)]
  /\ fs' = [fs EXCEPT ![tmpf_name[r]] = NoFile]
  /\ pc' = [pc EXCEPT ![r] = "respond"]
  /\ UNCHANGED << kind, form, errors, doc, images, tmpf_name, received,
                  background_tasks, validatorVars, helperVars >>

\* variant: no add_task
Return_without_task(r) ==
  /\ pc[r] = "saving"
  /\ fs' = [fs EXCEPT ![tmpf_name[r]] = [state |-> "complete", by |-> r]]
  /\ \E u \in UUIDs :
       LET name == << OutNamePrefix(kind[r]), u, ".docx" >>
       IN /\ out_name' = [out_name EXCEPT ![r] = name]
          /\ response' = [response EXCEPT ![r] = FileResponse(tmpf_name[r], name)]
  /\ pc' = [pc EXCEPT ![r] = "respond"]
  /\ UNCHANGED << kind, form, errors, doc, images, tmpf_name, received,
                  background_tasks, validatorVars, helperVars >>

\* doc.save(tmpf_name) has written the whole package and returns;
\* out_name = f"tallysheet_{uuid.uuid4().hex}.docx";
\* background_tasks.add_task(_cleanup, tmpf_name); return FileResponse(...)
Return(r) ==
  /\ pc[r] = "saving"
  /\ fs' = [fs EXCEPT ![tmpf_name[r]] = [state |-> "complete", by |-> r]]
  /\ \E u \in UUIDs :
       LET name == << OutNamePrefix(kind[r]), u, ".docx" >>
       IN /\ out_name' = [out_name EXCEPT ![r] = name]
          /\ response' = [response EXCEPT ![r] = FileResponse(tmpf_name[r], name)]
  /\ background_tasks' = [background_tasks EXCEPT ![r] = Append(@, tmpf_name[r])]
  /\ pc' = [pc EXCEPT ![r] = "respond"]
  /\ UNCHANGED << kind, form, errors, doc, images, tmpf_name, received,
                  validatorVars, helperVars >>

\* ------------------------------------------------------- generate_sample
ReceiveSample(r) ==
  /\ pc[r] = "idle"
  /\ kind' = [kind EXCEPT ![r] = "sample"]
  /\ pc' = [pc EXCEPT ![r] = "build"]
  /\ UNCHANGED << form, errors, doc, images, tmpf_name, out_name,
                  background_tasks, response, received, fs, validatorVars, helperVars >>

\* variant: the photo builders called before the section builders
BuildSampleDocument_photos_first(r) ==
  /\ pc[r] = "build"
  /\ kind[r] = "sample"
  /\ LET body == Photos(EmptyDict) \o SampleSections(SampleFieldValues, None)
     IN /\ doc' = [doc EXCEPT ![r] = body]
        /\ IF AnyRaised(body)
             THEN /\ pc' = [pc EXCEPT ![r] = "respond"]
                  /\ response' = [response EXCEPT ![r] = ServerError]
             ELSE /\ pc' = [pc EXCEPT ![r] = "tempfile"]
                  /\ response' = response
  /\ UNCHANGED << kind, form, errors, images, tmpf_name, out_name,
                  background_tasks, received, fs, validatorVars, helperVars >>

\* the same eighteen builders on the hardcoded values, then the photo
\* builders with images={}
BuildSampleDocument(r) ==
  /\ pc[r] = "build"
  /\ kind[r] = "sample"
  /\ LET body == SampleSections(SampleFieldValues, None) \o Photos(EmptyDict)
     IN /\ doc' = [doc EXCEPT ![r] = body]
        /\ IF AnyRaised(body)
             THEN /\ pc' = [pc EXCEPT ![r] = "respond"]
                  /\ response' = [response EXCEPT ![r] = ServerError]
             ELSE /\ pc' = [pc EXCEPT ![r] = "tempfile"]
                  /\ response' = response
  /\ UNCHANGED << kind, form, errors, images, tmpf_name, out_name,
                  background_tasks, received, fs, validatorVars, helperVars >>

\* ------------------------------------------- the framework after the return
\* a JSON or error response has no file to read
SendBody(r) ==
  /\ pc[r] = "respond"
  /\ response[r].type # "file"
  /\ pc' = [pc EXCEPT ![r] = "background"]
  /\ UNCHANGED << kind, form, errors, doc, images, tmpf_name, out_name,
                  background_tasks, response, received, fs, validatorVars, helperVars >>

\* FileResponse: one chunk of the file at response.path is read and sent;
\* with the last one the response is complete
SendChunk(r) ==
  /\ pc[r] \in {"respond", "sending"}
  /\ response[r].type = "file"
  /\ received' = [received EXCEPT ![r] = Append(@, fs[response[r].path])]
  /\ pc' = [pc EXCEPT ![r] =
              IF Len(received[r]) + 1 >= NumChunks THEN "background" ELSE "sending"]
  /\ UNCHANGED << kind, form, errors, doc, images, tmpf_name, out_name,
                  background_tasks, response, fs, validatorVars, helperVars >>

\* _cleanup(path): os.remove(path), any exception swallowed
RECURSIVE _cleanup(_, _)
_cleanup(files, paths) ==
  IF paths = <<>> THEN files
  ELSE _cleanup([files EXCEPT ![Head(paths)] = NoFile], Tail(paths))

\* the response's background tasks run once the response has been sent;
\* the request is then over and its locals are gone
RunBackground(r) ==
  /\ pc[r] = "background"
  /\ fs' = _cleanup(fs, background_tasks[r])
  /\ background_tasks' = [background_tasks EXCEPT ![r] = <<>>]
  /\ pc' = [pc EXCEPT ![r] = "idle"]
  /\ kind' = [kind EXCEPT ![r] = "none"]
  /\ form' = [form EXCEPT ![r] = EmptyDict]
  /\ errors' = [errors EXCEPT ![r] = <<>>]
  /\ doc' = [doc EXCEPT ![r] = <<>>]
  /\ images' = [images EXCEPT ![r] = EmptyDict]
  /\ tmpf_name' = [tmpf_name EXCEPT ![r] = 0]
  /\ out_name' = [out_name EXCEPT ![r] = <<>>]
  /\ response' = [response EXCEPT ![r] = NoResponse]
  /\ received' = [received EXCEPT ![r] = <<>>]
  /\ UNCHANGED << validatorVars, helperVars >>

\* ----------------------------------------------------------- specifications
Step(r, submissions) ==
  \/ ReceiveFull(r, submissions)
  \/ Validate(r)
  \/ BuildDocument(r)
  \/ CreateTempFile(r)
  \/ SaveBegin(r)
  \/ Return(r)
  \/ ReceiveSample(r)
  \/ BuildSampleDocument(r)
  \/ SendBody(r)
  \/ SendChunk(r)
  \/ RunBackground(r)

\* one request at a time, over the whole range of submissions
Next == Step(1, Submissions)

Spec == Init /\ [][Next]_vars

\* requests in flight together
NextConcurrent == \E r \in Requests : Step(r, ConcurrentSubmissions)

SpecConcurrent == Init /\ [][NextConcurrent]_vars

\* the framework runs a response's background tasks once it has sent it
SpecConcurrentFair ==
  SpecConcurrent /\ \A r \in Requests : WF_vars(RunBackground(r))

\* ------------------------------------------- the handler up to validation
\* text fields g1 and g2 hold v1 and v2, upload field u holds f, the rest
\* is absent
TwoFields(g1, v1, g2, v2, u, f) ==
  Submission([k \in TextFieldSet |->
                IF k = g1 THEN v1 ELSE IF k = g2 THEN v2 ELSE None],
             Override(UploadFieldSet, u, f, None))

\* a ruled field valid, invalid or absent, and beside it free text, a
\* direction, a tick or an upload in fields without a rule
PairSubmissions ==
  { TwoFields(g1, v1, g2, v2, "foto_tmat_1", f) :
      g1 \in {"banjir_lama_hari"}, v1 \in {None, <<"5">>, <<"a", "b", "c">>},
      g2 \in {"latitude_arah", "sumber_air_hujan", "nama_perusahaan"},
      v2 \in {None, <<"a", "b", "c">>},
      f \in {None, UploadFile("garbage")} }

\* requests in flight together, each followed to the outcome of validation
NextValidation ==
  \E r \in Requests :
    \/ ReceiveFull(r, PairSubmissions)
    \/ Validate(r)
    \/ SendBody(r)
    \/ RunBackground(r)

SpecValidation == Init /\ [][NextValidation]_vars

\* ------------------------------------------------ failures of the handler
\* an exception while the document is built (Document(), a builder) leaves
\* the handler: nothing was created yet
BuildFails(r) ==
  /\ pc[r] = "build"
  /\ response' = [response EXCEPT ![r] = ServerError]
  /\ pc' = [pc EXCEPT ![r] = "respond"]
  /\ UNCHANGED << kind, form, errors, doc, images, tmpf_name, out_name,
                  background_tasks, received, fs, validatorVars, helperVars >>

\* doc.save(tmpf_name) raises, before or while it writes: the exception
\* leaves the handler and the file stays as it is
SaveFails(r) ==
  /\ pc[r] \in {"save", "saving"}
  /\ response' = [response EXCEPT ![r] = ServerError]
  /\ pc' = [pc EXCEPT ![r] = "respond"]
  /\ UNCHANGED << kind, form, errors, doc, images, tmpf_name, out_name,
                  background_tasks, received, fs, validatorVars, helperVars >>

FaultSubmissions == ConcurrentSubmissions \cup {MixedSubmission}

\* one request after the other, any of which may fail
NextFault ==
  \/ Step(1, FaultSubmissions)
  \/ BuildFails(1)
  \/ SaveFails(1)

SpecFault == Init /\ [][NextFault]_vars

\* ------------------------------------- validate_numeric_fields on its own
Alphabet == {" ", "5", ".", "-", "a"}

\* every text over Alphabet of at most n characters
TextsUpTo(n) == UNION {[1..k -> Alphabet] : k \in 0..n}

\* texts beyond the alphabet that int() or float() treat specially
ExtraTexts ==
  { <<"n", "a", "n">>, <<"I", "n", "f">>, <<"5", "e", "5">>, <<"5", "_", "0">>,
    <<"+", "5">>, <<"\t", "5">>, <<"5", "_">>, <<"e", "5">> }

SubmittedValues == {None} \cup TextsUpTo(MaxLen) \cup ExtraTexts

RuledFields == {numeric_rules[i][1] : i \in 1..Len(numeric_rules)}

\* the ruled fields and one field without a rule
TableFormKeys == RuledFields \cup {"latitude_arah"}

TableForms ==
  { Override(TableFormKeys, g, v, bg) :
      g \in TableFormKeys, v \in SubmittedValues,
      bg \in {None, <<>>, <<"5">>, <<"5", ".", "5">>, <<"x">>} }

\* rule lists over two fields, a field possibly named twice
SmallRuleFields == {"genangan", "banjir_lama_hari"}
SmallRules == SmallRuleFields \X BOOLEAN
RuleLists == UNION {[1..k -> SmallRules] : k \in 0..MaxRules}

SmallValues == { None, <<>>, <<" ">>, <<"5">>, <<"5", ".", "5">>, <<"a">> }
SmallForms == UNION {[d -> SmallValues] : d \in SUBSET SmallRuleFields}

ValidatorInit ==
  /\ HandlersIdle
  /\ HelpersOff
  /\ v_pc = "call"
  /\ v_errors = <<>>
  /\ \/ v_rules = numeric_rules /\ v_form \in TableForms
     \/ v_rules \in RuleLists /\ v_form \in SmallForms

ValidatorReturn ==
  /\ v_pc = "call"
  /\ v_errors' = validate_numeric_fields(v_form, v_rules)
  /\ v_pc' = "returned"
  /\ UNCHANGED << v_form, v_rules, handlerVars, helperVars >>

SpecValidate == ValidatorInit /\ [][ValidatorReturn]_vars

\* ------------------------------------------ the other helpers on their own
\* longest placeholder asked of format_input_text
MaxPlaceholder == 7

\* values handed to the two formatters
FormatValues ==
  SubmittedValues
    \cup { <<"\t">>, <<" ", "\t">>, <<"4", "2">>, <<"o", "n">>, <<"_">>, <<"X">> }

FormatInputTextCalls ==
  { <<"format_input_text", <<v, n>> >> : v \in FormatValues, n \in 0..MaxPlaceholder }

FormatCheckboxCalls ==
  { <<"format_checkbox_as_X", <<v>> >> : v \in FormatValues }

\* what a slot of an images mapping can hold: nothing, bytes or a path,
\* empty, a decodable image or something else
SlotValues ==
  { None, Bytes("empty"), Bytes("image"), Bytes("garbage"),
    Path("image"), Path("garbage") }

\* images mappings: every slot holds bg except g which holds v; one slot
\* only; none; and a key no builder knows
ImagesMappings ==
  { Override(Range(photo_fields), g, v, bg) :
      g \in Range(photo_fields), v \in SlotValues, bg \in SlotValues }
    \cup { [k \in {g} |-> v] : g \in Range(photo_fields), v \in SlotValues }
    \cup { EmptyDict, [k \in {"foto_lain"} |-> Bytes("image")] }

PhotoBuilderCalls == { <<"photo_builders", <<i>> >> : i \in ImagesMappings }

\* most paragraphs of a cell handed to _insert_image_in_cell
MaxParagraphs == 2

\* paragraphs a cell can hold before the call: empty, text, a picture
PriorParagraphs ==
  { Paragraph("NONE", <<>>),
    Paragraph("LEFT", << set_run_style("lama", 11, FALSE, FALSE) >>),
    Paragraph("RIGHT", << Run("", 0, FALSE, FALSE, << Bytes("image"), 10 >>) >>) }

\* a cell always has at least one paragraph
Cells == UNION { [1..k -> PriorParagraphs] : k \in 1..MaxParagraphs }

InsertImageCalls ==
  { <<"_insert_image_in_cell", <<c, s, DefaultMaxWidthInches>> >> :
      c \in Cells, s \in SlotValues }

HelperCalls ==
  FormatInputTextCalls \cup FormatCheckboxCalls \cup PhotoBuilderCalls
    \cup InsertImageCalls

HelperInit ==
  /\ HandlersIdle
  /\ ValidatorOff
  /\ h_pc = "call"
  /\ h_result = <<>>
  /\ \E c \in HelperCalls : h_fn = c[1] /\ h_args = c[2]

FormatInputTextReturn ==
  /\ h_pc = "call"
  /\ h_fn = "format_input_text"
  /\ h_result' = format_input_text(h_args[1], h_args[2])
  /\ h_pc' = "returned"
  /\ UNCHANGED << h_fn, h_args, handlerVars, validatorVars >>

FormatCheckboxReturn ==
  /\ h_pc = "call"
  /\ h_fn = "format_checkbox_as_X"
  /\ h_result' = format_checkbox_as_X(h_args[1])
  /\ h_pc' = "returned"
  /\ UNCHANGED << h_fn, h_args, handlerVars, validatorVars >>

\* add_foto_lapangan_section(doc, images) and then
\* add_additional_photo_sections(doc, images) on a new document
PhotoBuildersReturn ==
  /\ h_pc = "call"
  /\ h_fn = "photo_builders"
  /\ LET body == Photos(h_args[1])
     IN h_result' = [elements |-> body, raised |-> AnyRaised(body)]
  /\ h_pc' = "returned"
  /\ UNCHANGED << h_fn, h_args, handlerVars, validatorVars >>

InsertImageReturn ==
  /\ h_pc = "call"
  /\ h_fn = "_insert_image_in_cell"
  /\ h_result' = _insert_image_in_cell(h_args[1], h_args[2], h_args[3])
  /\ h_pc' = "returned"
  /\ UNCHANGED << h_fn, h_args, handlerVars, validatorVars >>

HelperNext ==
  \/ FormatInputTextReturn
  \/ FormatCheckboxReturn
  \/ PhotoBuildersReturn
  \/ InsertImageReturn

SpecHelpers == HelperInit /\ [][HelperNext]_vars

\* ------------------------------------------------------------- properties
\* positions of the entries of errs that name field
EntriesFor(errs, field) == {j \in 1..Len(errs) : errs[j].field = field}

\* absent, empty or whitespace-only
Unfilled(val) == val = None \/ \A i \in 1..Len(val) : val[i] \in Whitespace

\* the value of a rule's field is filled in and does not parse as the
\* rule's kind
InvalidUnder(val, is_int) ==
  /\ ~Unfilled(val)
  /\ IF is_int THEN ~IntParses(val) ELSE ~FloatParses(val)

TableCallReturned == v_pc = "returned" /\ v_rules = numeric_rules

\* C2: for every real-valued rule of the handler's table, a filled-in value
\* that is not a number yields exactly one error entry naming the field, and
\* an absent, empty or whitespace-only value yields none, whatever the other
\* fields hold.
C2_RealRuleEntries ==
  TableCallReturned =>
    \A i \in 1..Len(numeric_rules) :
      ~numeric_rules[i][2] =>
        LET field == numeric_rules[i][1]
            val == Get(v_form, field)
            n == Cardinality(EntriesFor(v_errors, field))
        IN /\ Unfilled(val) => n = 0
           /\ (~Unfilled(val) /\ ~FloatParses(val)) => n = 1

C2_Witness ==
  /\ TableCallReturned
  /\ v_form["genangan"] = <<"a">>
  /\ v_form["elevasi_lahan"] = <<"x">>
  /\ Cardinality(EntriesFor(v_errors, "genangan")) = 1

\* rule positions whose field is invalid, in a call's arguments
InvalidRules == {i \in 1..Len(v_rules) :
                   InvalidUnder(Get(v_form, v_rules[i][1]), v_rules[i][2])}

\* the k-th smallest member of a set of positions
Nth(S, k) == CHOOSE i \in S : Cardinality({x \in S : x <= i}) = k

\* C3: the validator is not fail-fast: the returned list has exactly one
\* entry per rule whose field is filled in and unparsable, in rule order, and
\* it is empty exactly when no rule's field is invalid.
C3_OneEntryPerInvalidRule ==
  v_pc = "returned" =>
    /\ Len(v_errors) = Cardinality(InvalidRules)
    /\ \A j \in 1..Len(v_errors) :
         LET rule == v_rules[Nth(InvalidRules, j)]
         IN /\ v_errors[j].field = rule[1]
            /\ v_errors[j].msg.expected = IF rule[2] THEN "integer" ELSE "number"
    /\ (v_errors = <<>>) <=> (InvalidRules = {})

C3_Witness ==
  /\ TableCallReturned
  /\ Len(v_errors) = Len(numeric_rules)

\* C4: banjir_lama_hari is the only field validated as an integer: "5.5" in
\* it yields an error and "5" does not, and a value that parses as a real but
\* not as an integer yields an error in that field and in no other ruled one.
C4_OnlyFloodDaysIsInteger ==
  TableCallReturned =>
    /\ v_form["banjir_lama_hari"] = <<"5", ".", "5">>
         => Cardinality(EntriesFor(v_errors, "banjir_lama_hari")) = 1
    /\ v_form["banjir_lama_hari"] = <<"5">>
         => EntriesFor(v_errors, "banjir_lama_hari") = {}
    /\ \A field \in RuledFields :
         LET val == v_form[field]
         IN (~Unfilled(val) /\ FloatParses(val) /\ ~IntParses(val)) =>
              ((EntriesFor(v_errors, field) # {}) <=> (field = "banjir_lama_hari"))

C4_Witness ==
  /\ TableCallReturned
  /\ v_form["banjir_lama_hari"] = <<"5", ".", "5">>
  /\ v_form["genangan"] = <<"5", ".", "5">>
  /\ Len(v_errors) = 1
  /\ v_errors[1].field = "banjir_lama_hari"

\* ---------------------------------------------- properties of the handlers
\* the handler has returned; the response is waiting, going out or sent
Responded(r) == pc[r] \in {"respond", "sending", "background"}

\* ruled fields of a form whose value is filled in and does not parse
InvalidFields(f) ==
  {numeric_rules[i][1] : i \in {j \in 1..Len(numeric_rules) :
      InvalidUnder(Get(f, numeric_rules[j][1]), numeric_rules[j][2])}}

\* C1: in the full-submission handler, when a field of the rule table holds a
\* filled-in value that fails to parse, the request ends with 422 and a
\* detail list with an entry naming that field, and in that request no
\* document is built, no temporary file is created and no cleanup task is
\* scheduled.
C1_InvalidFieldRejected ==
  \A r \in Requests :
    (kind[r] = "full" /\ pc[r] \notin {"idle", "validate"}
       /\ InvalidFields(form[r]) # {}) =>
      /\ response[r].status = 422
      /\ response[r].type = "json"
      /\ \A field \in InvalidFields(form[r]) :
           EntriesFor(response[r].detail, field) # {}
      /\ doc[r] = <<>>
      /\ tmpf_name[r] = 0
      /\ \A p \in TempNames : fs[p].by # r
      /\ background_tasks[r] = <<>>

C1_Witness ==
  /\ pc[1] = "background"
  /\ kind[1] = "full"
  /\ form[1]["banjir_lama_hari"] = <<"a", "b", "c">>
  /\ response[1].status = 422
  /\ EntriesFor(response[1].detail, "banjir_lama_hari") # {}

\* C5: the temporary file is completely saved before the response starts and
\* stays so until the response is sent: every chunk the caller reads comes
\* from the whole file of its own request, and the file is deleted only in
\* a step taken after the response has been fully transmitted.
FileIntact(r) == fs[response[r].path] = [state |-> "complete", by |-> r]

C5_SavedBeforeDeletedAfter ==
  /\ [](\A r \in Requests :
          /\ \A i \in 1..Len(received[r]) :
               received[r][i] = [state |-> "complete", by |-> r]
          /\ (Responded(r) /\ response[r].type = "file") => FileIntact(r))
  /\ [][\A r \in Requests :
          (tmpf_name[r] # 0 /\ fs[tmpf_name[r]].by = r
             /\ fs'[tmpf_name[r]].state = "absent")
            => (pc[r] = "background" /\ pc'[r] = "idle")]_vars

C5_Witness ==
  \E r1, r2 \in Requests :
    /\ r1 # r2
    /\ pc[r1] = "background"
    /\ Len(received[r1]) = NumChunks
    /\ FileIntact(r1)
    /\ pc[r2] = "saving"

HoldsTempFile(r) == tmpf_name[r] # 0

\* C7 as stated: two requests in flight never have the same temporary file
\* path and never the same output filename.
C7_Original ==
  \A r1, r2 \in Requests :
    (r1 # r2 /\ kind[r1] = "full" /\ kind[r2] = "full") =>
      /\ (HoldsTempFile(r1) /\ HoldsTempFile(r2)) => tmpf_name[r1] # tmpf_name[r2]
      /\ (out_name[r1] # <<>> /\ out_name[r2] # <<>>) => out_name[r1] # out_name[r2]

\* C7, amended: two requests in flight never hold the same temporary file
\* path at the same time; the file of a request exists and is its own from
\* its creation to its own cleanup, and only the request's own steps write
\* or delete it.
C7_NoSharedTempFile ==
  /\ [](\A r1, r2 \in Requests :
          (r1 # r2 /\ HoldsTempFile(r1) /\ HoldsTempFile(r2))
            => tmpf_name[r1] # tmpf_name[r2])
  /\ [](\A r \in Requests :
          HoldsTempFile(r) =>
            /\ fs[tmpf_name[r]].by = r
            /\ fs[tmpf_name[r]].state # "absent")
  /\ [][\A r \in Requests :
          (HoldsTempFile(r) /\ fs'[tmpf_name[r]] # fs[tmpf_name[r]])
            => pc'[r] # pc[r]]_vars

C7_Witness ==
  \E r1, r2 \in Requests :
    /\ r1 # r2
    /\ kind[r1] = "full" /\ kind[r2] = "full"
    /\ pc[r1] = "background" /\ response[r1].type = "file"
    /\ pc[r2] = "saving"
    /\ tmpf_name[r1] # tmpf_name[r2]

\* text of a cell: the text of each of its paragraphs
RECURSIVE RunsText(_)
RunsText(runs) ==
  IF runs = <<>> THEN "" ELSE Head(runs).text \o RunsText(Tail(runs))

CellText(cell) == [i \in 1..Len(cell) |-> RunsText(cell[i].runs)]

\* images embedded in a cell
CellPictures(cell) ==
  UNION { {cell[i].runs[j].picture[1] :
             j \in {k \in 1..Len(cell[i].runs) : cell[i].runs[k].picture # None}} :
          i \in 1..Len(cell) }

SectionBlocksOf(d) == {d[i] : i \in {j \in 1..Len(d) : d[j].type = "section"}}

ImageRowsOf(d) ==
  UNION { {d[i].rows[k] : k \in {x \in 1..Len(d[i].rows) : d[i].rows[x].kind = "image"}} :
            i \in {j \in 1..Len(d) : d[j].type = "table"} }

\* the item numbers of the photo sections, in document order
RECURSIVE RowItems(_)
RowItems(rows) ==
  IF rows = <<>> THEN <<>>
  ELSE (IF Head(rows).item > 0 THEN << Head(rows).item >> ELSE <<>>)
         \o RowItems(Tail(rows))

RECURSIVE ItemNumbers(_)
ItemNumbers(d) ==
  IF d = <<>> THEN <<>>
  ELSE (CASE Head(d).type = "paragraph" ->
               IF Head(d).item > 0 THEN << Head(d).item >> ELSE <<>>
          [] Head(d).type = "table" -> RowItems(Head(d).rows)
          [] OTHER -> <<>>)
         \o ItemNumbers(Tail(d))

IsUnderscores(text) == text # <<>> /\ \A i \in 1..Len(text) : text[i] = "_"

\* all fields empty and no files
AllEmpty(f) ==
  /\ \A k \in TextFieldSet : f[k] \in {None, <<>>}
  /\ \A k \in UploadFieldSet : f[k] = None

\* C8: a full-section request with all fields empty and no files gets 200
\* with the saved document; every data cell of it shows underscores or
\* "(no image)", and the photo sections hold the items 1 to 12 in order.
C8_EmptySubmissionDocument ==
  \A r \in Requests :
    (kind[r] = "full" /\ Responded(r) /\ AllEmpty(form[r])) =>
      /\ response[r].status = 200
      /\ response[r].type = "file"
      /\ FileIntact(r)
      /\ \A b \in SectionBlocksOf(doc[r]) :
           /\ \A field \in DOMAIN b.cells : IsUnderscores(b.cells[field])
           /\ b.image # <<>> => CellText(b.image) = << NoImageText >>
      /\ \A row \in ImageRowsOf(doc[r]) :
           \A i \in 1..Len(row.cells) : CellText(row.cells[i]) = << NoImageText >>
      /\ ItemNumbers(doc[r]) = [i \in 1..12 |-> i]

C8_Witness ==
  /\ kind[1] = "full"
  /\ pc[1] = "background"
  /\ AllEmpty(form[1])
  /\ form[1]["genangan"] = <<>>
  /\ response[1].status = 200
  /\ Len(doc[1]) > Len(SectionBuilders)

\* the order of the positions of a request
PcRank(p) ==
  CASE p = "idle" -> 0
    [] p = "validate" -> 1
    [] p = "build" -> 2
    [] p = "tempfile" -> 3
    [] p = "save" -> 4
    [] p = "saving" -> 5
    [] p = "respond" -> 6
    [] p = "sending" -> 7
    [] p = "background" -> 8

\* C9: the sample endpoint always answers 200 with a document: a sample
\* request never gets another response; while it is in the handler its next
\* step can always be taken, while the response is being sent the next chunk
\* can always be sent, and every step moves it forward, so that every
\* execution of generate_sample reaches the file response.
C9_SampleAlways200 ==
  /\ [](\A r \in Requests :
          kind[r] = "sample" =>
            /\ Responded(r) => (response[r].status = 200 /\ response[r].type = "file")
            /\ pc[r] \in {"build", "tempfile", "save", "saving"} =>
                 ENABLED (BuildSampleDocument(r) \/ CreateTempFile(r)
                            \/ SaveBegin(r) \/ Return(r))
            /\ pc[r] \in {"respond", "sending"} => ENABLED SendChunk(r))
  /\ [][\A r \in Requests :
          (kind[r] = "sample" /\ pc'[r] # pc[r])
            => (PcRank(pc'[r]) > PcRank(pc[r]) \/ pc'[r] = "idle")]_vars

C9_Witness ==
  /\ kind[1] = "sample"
  /\ pc[1] = "background"
  /\ response[1].status = 200
  /\ Len(received[1]) = NumChunks

\* what a cell shows after _insert_image_in_cell
ShowsNoImage(cell) == CellText(cell) = << NoImageText >> /\ CellPictures(cell) = {}
ShowsError(cell) == CellText(cell) = << ErrorImageText >> /\ CellPictures(cell) = {}
ShowsPicture(cell, src) == CellText(cell) = << "" >> /\ CellPictures(cell) = {src}

\* the outcome the source calls for
OutcomeFits(cell, src) ==
  /\ ShowsNoImage(cell) <=> IsFalsy(src)
  /\ ShowsError(cell) <=> (~IsFalsy(src) /\ src # Bytes("image"))
  /\ ShowsPicture(cell, src) <=> (src = Bytes("image"))

\* C10: _insert_image_in_cell never lets a failure out and leaves the cell in
\* exactly one of three states: "(no image)" when there is no source,
\* "(error inserting image)" when the source does not decode, the picture and
\* no placeholder text when it does.
C10_ImageCellOutcome ==
  \A r \in Requests :
    doc[r] # <<>> =>
      /\ ~AnyRaised(doc[r])
      /\ response[r].status # 500
      /\ \A row \in ImageRowsOf(doc[r]) :
           \A i \in 1..Len(row.cells) :
             OutcomeFits(row.cells[i], Get(images[r], row.keys[i]))
      /\ \A b \in SectionBlocksOf(doc[r]) :
           (b.image # <<>> /\ kind[r] = "full")
             => OutcomeFits(b.image, SketsaBytes(form[r]))

C10_Witness ==
  /\ pc[1] = "background"
  /\ response[1].status = 200
  /\ Get(images[1], "foto_tmat_1") = Bytes("image")
  /\ Get(images[1], "foto_tmat_2") = Bytes("garbage")
  /\ Get(images[1], "foto_drainase_alami") = Bytes("empty")
  /\ Get(images[1], "foto_drainase_buatan") = None
  /\ \E row \in ImageRowsOf(doc[1]) :
       /\ row.keys = <<"foto_tmat_1", "foto_tmat_2">>
       /\ ShowsPicture(row.cells[1], Bytes("image"))
       /\ ShowsError(row.cells[2])
  /\ \E row \in ImageRowsOf(doc[1]) :
       /\ row.keys = <<"foto_drainase_alami", "foto_drainase_buatan">>
       /\ ShowsNoImage(row.cells[1])
       /\ ShowsNoImage(row.cells[2])

\* ---------------------------------------------- fields and their locations
\* the fields a document's section builders were passed, in call order
RECURSIVE PassedFields(_)
PassedFields(d) ==
  IF d = <<>> THEN <<>>
  ELSE (IF Head(d).type = "section" THEN Head(d).passed ELSE <<>>)
         \o PassedFields(Tail(d))

\* the keys the image cells of some rows look up, in row order
RECURSIVE RowKeys(_)
RowKeys(rows) ==
  IF rows = <<>> THEN <<>>
  ELSE (IF Head(rows).kind = "image" THEN Head(rows).keys ELSE <<>>)
         \o RowKeys(Tail(rows))

\* the keys the photo tables of a document look up, in document order
RECURSIVE LookedUpKeys(_)
LookedUpKeys(d) ==
  IF d = <<>> THEN <<>>
  ELSE (IF Head(d).type = "table" THEN RowKeys(Head(d).rows) ELSE <<>>)
         \o LookedUpKeys(Tail(d))

\* seq names every element of S exactly once
EachOnce(seq, S) == Range(seq) = S /\ Len(seq) = Cardinality(S)

\* the handler has built the whole document of a full submission
Built(r) ==
  /\ kind[r] = "full"
  /\ pc[r] \in {"tempfile", "save", "saving", "respond", "sending", "background"}
  /\ doc[r] # <<>>

\* C11: in a request that passes validation every text field of the
\* signature is passed to exactly one argument of one section builder, the
\* site sketch goes to one image, and every name of photo_fields is looked up
\* by exactly one image cell of the two photo builders, which look up no
\* other key; the images read are those of photo_fields.
C11_EveryFieldOneLocation ==
  \A r \in Requests :
    Built(r) =>
      /\ EachOnce(PassedFields(doc[r]), TextFieldSet)
      /\ Cardinality({b \in SectionBlocksOf(doc[r]) : b.image # <<>>}) = 1
      /\ EachOnce(LookedUpKeys(doc[r]), Range(photo_fields))
      /\ Len(photo_fields) = Cardinality(Range(photo_fields))
      /\ DOMAIN images[r] = Range(photo_fields)
      /\ Range(photo_fields) \cup {"sketsa_lokasi_image"} = UploadFieldSet

C11_Witness ==
  /\ Built(1)
  /\ form[1] = MixedSubmission
  /\ response[1].status = 200
  /\ images[1]["foto_tambahan_8"] = Bytes("garbage")

\* ------------------------------------------------------------ formatters
Returned(fn) == h_pc = "returned" /\ h_fn = fn

\* C12: format_input_text gives back the value itself when it is not blank,
\* and for None, the empty and the whitespace-only value a text of exactly
\* placeholder_length characters, each an underscore.
C12_FormatInputText ==
  Returned("format_input_text") =>
    LET value == h_args[1]
        placeholder_length == h_args[2]
    IN IF Unfilled(value)
         THEN /\ Len(h_result) = placeholder_length
              /\ \A i \in 1..Len(h_result) : h_result[i] = "_"
         ELSE h_result = value

C12_Witness ==
  /\ Returned("format_input_text")
  /\ h_args = << <<" ", "\t">>, DefaultPlaceholderLength >>
  /\ h_result = <<"_", "_", "_", "_", "_", "_">>

\* C13: format_checkbox_as_X gives "X" for every value that is not blank and
\* "_" for None, the empty and the whitespace-only value, and nothing else.
C13_FormatCheckbox ==
  Returned("format_checkbox_as_X") =>
    /\ h_result \in { <<"X">>, <<"_">> }
    /\ h_result = <<"X">> <=> ~Unfilled(h_args[1])

C13_Witness ==
  /\ Returned("format_checkbox_as_X")
  /\ h_args = << <<"o", "n">> >>
  /\ h_result = <<"X">>

\* ---------------------------------------------------------------- failures
\* the handler of request r is left by an exception in this step
HandlerFails(r) ==
  /\ pc[r] \in {"build", "tempfile", "save", "saving"}
  /\ response'[r].status = 500

\* C14: a request that fails while its document is built or saved is
\* answered with a server error and has no cleanup task: a task is queued
\* only for a completely saved file, so when doc.save fails the temporary
\* file already created stays on disk, in the failing step and when the
\* request is over.
C14_FailureLeavesFileUnscheduled ==
  /\ [](\A r \in Requests :
          /\ response[r].status = 500 =>
                (response[r].type = "error" /\ background_tasks[r] = <<>>)
          /\ background_tasks[r] # <<>> =>
                /\ background_tasks[r] = << tmpf_name[r] >>
                /\ fs[tmpf_name[r]] = [state |-> "complete", by |-> r]
                /\ response[r].status = 200)
  /\ [][\A r \in Requests :
          /\ HandlerFails(r) =>
                /\ background_tasks'[r] = <<>>
                /\ fs' = fs
          /\ (pc[r] = "background" /\ response[r].status = 500 /\ pc'[r] = "idle") =>
                fs' = fs]_vars

C14_Witness ==
  \E r \in Requests :
    /\ pc[r] = "idle"
    /\ \E p \in TempNames : fs[p] = [state |-> "partial", by |-> r]

\* ------------------------------------------------------------------ order
\* the names of the section builders whose blocks a document holds, in order
RECURSIVE BuilderNames(_)
BuilderNames(d) ==
  IF d = <<>> THEN <<>>
  ELSE (IF Head(d).type = "section" THEN << Head(d).name >> ELSE <<>>)
         \o BuilderNames(Tail(d))

\* the order in which generate_full_section calls the section builders
FullOrder == [i \in 1..Len(SectionBuilders) |-> SectionBuilders[i].name]

\* positions of a document that hold the block of a section builder
SectionPositions(d) == {i \in 1..Len(d) : d[i].type = "section"}

\* C15: the steps of a request are in one order: nothing is built before
\* validation has passed; a built document holds the blocks of the eighteen
\* section builders in the order of the full handler, coordinates first and
\* site sketch last, in the sample handler as in the full one; after them
\* come the photo items 1 to 4 and then 5 to 12; the temporary file is
\* created and saved only after the whole document is built, and the
\* document changes in no later step.
C15_LinearOrder ==
  /\ [](\A r \in Requests :
          /\ (pc[r] \in {"idle", "validate", "build"} \/ response[r].status = 422)
                => (doc[r] = <<>> /\ tmpf_name[r] = 0)
          /\ (kind[r] = "full" /\ doc[r] # <<>>) => errors[r] = <<>>
          /\ tmpf_name[r] # 0 => doc[r] # <<>>
          /\ doc[r] # <<>> =>
                /\ BuilderNames(doc[r]) = FullOrder
                /\ Len(FullOrder) = 18
                /\ FullOrder[1] = "add_formulir_tallysheet"
                /\ FullOrder[18] = "add_sketsa_lokasi_row"
                /\ SectionPositions(doc[r]) = 1..18
                /\ doc[r][19].type = "table"
                /\ RowItems(doc[r][19].rows) = <<1, 2, 3, 4>>
                /\ ItemNumbers(doc[r]) = <<1, 2, 3, 4, 5, 6, 7, 8, 9, 10, 11, 12>>)
  /\ [][\A r \in Requests :
          doc'[r] # doc[r] => (pc[r] = "build" \/ pc'[r] = "idle")]_vars

C15_Witness ==
  /\ kind[1] = "sample"
  /\ pc[1] = "saving"
  /\ BuilderNames(doc[1]) = FullOrder
  /\ Len(doc[1]) > 19

\* ----------------------------------------------------------- photo layout
\* what a slot holding src must render as
RendersSlot(cell, src) ==
  IF IsFalsy(src) THEN ShowsNoImage(cell)
  ELSE IF src \in {Bytes("image"), Path("image")} THEN ShowsPicture(cell, src)
  ELSE ShowsError(cell)

\* a document without what its image cells hold
Layout(d) ==
  [i \in 1..Len(d) |->
     IF d[i].type = "table"
       THEN [type |-> "table",
             rows |-> [j \in 1..Len(d[i].rows) |->
                         IF d[i].rows[j].kind = "image"
                           THEN [d[i].rows[j] EXCEPT !.cells = <<>>]
                           ELSE d[i].rows[j]]]
       ELSE d[i]]

\* position of the heading of item n
HeadingOf(d, n) ==
  CHOOSE i \in 1..Len(d) : d[i].type = "paragraph" /\ d[i].item = n

\* C16: for every images mapping the two photo builders return without an
\* exception and append one layout: items 1 to 12 in ascending order, item
\* 12 being four tables of one row of two image cells for foto_tambahan_1
\* to 8, each followed by an empty paragraph and nothing after; every image
\* cell renders what its own slot holds, whatever the other slots hold.
C16_PhotoLayoutFixed ==
  Returned("photo_builders") =>
    LET d == h_result.elements
        mapping == h_args[1]
        h == HeadingOf(d, 12)
    IN /\ ~h_result.raised
       /\ ItemNumbers(d) = <<1, 2, 3, 4, 5, 6, 7, 8, 9, 10, 11, 12>>
       /\ Layout(d) = Layout(Photos(EmptyDict))
       /\ Len(d) = h + 8
       /\ \A n \in 1..4 :
            /\ d[h + 2 * n - 1].type = "table"
            /\ Len(d[h + 2 * n - 1].rows) = 1
            /\ d[h + 2 * n - 1].rows[1].kind = "image"
            /\ d[h + 2 * n - 1].rows[1].keys = TambahanPairs[n]
            /\ Len(d[h + 2 * n - 1].rows[1].cells) = 2
            /\ d[h + 2 * n] = EmptyParagraph
       /\ RowKeys(<< d[h + 1].rows[1], d[h + 3].rows[1], d[h + 5].rows[1], d[h + 7].rows[1] >>)
            = << "foto_tambahan_1", "foto_tambahan_2", "foto_tambahan_3",
                 "foto_tambahan_4", "foto_tambahan_5", "foto_tambahan_6",
                 "foto_tambahan_7", "foto_tambahan_8" >>
       /\ \A row \in ImageRowsOf(d) :
            \A c \in 1..Len(row.cells) :
              RendersSlot(row.cells[c], Get(mapping, row.keys[c]))

C16_Witness ==
  /\ Returned("photo_builders")
  /\ ~h_result.raised
  /\ Get(h_args[1], "foto_tambahan_7") = Bytes("garbage")
  /\ Get(h_args[1], "foto_tambahan_8") = Path("image")
  /\ \E row \in ImageRowsOf(h_result.elements) :
       /\ row.keys = <<"foto_tambahan_7", "foto_tambahan_8">>
       /\ ShowsError(row.cells[1])
       /\ ShowsPicture(row.cells[2], Path("image"))

\* -------------------------------------------------------- cell after insert
\* C17: after _insert_image_in_cell the cell, whatever paragraphs it held
\* before, has exactly one paragraph, which is centered and holds only the
\* inserted picture or the placeholder.
C17_OneCenteredParagraph ==
  Returned("_insert_image_in_cell") =>
    /\ ~h_result.raised
    /\ Len(h_result.cell) = 1
    /\ h_result.cell[1].alignment = "CENTER"
    /\ RendersSlot(h_result.cell, h_args[2])

\* ------------------------------------------------- fields without a rule
\* request r has the outcome of its validation
Validated(r) == kind[r] = "full" /\ pc[r] \notin {"idle", "validate"}

AgreeOnRuledFields(f1, f2) == \A k \in RuledFields : Get(f1, k) = Get(f2, k)

\* C18: the outcome of validation depends on the ruled fields only: two
\* submissions that agree on every ruled field get the same error list and
\* are both rejected or both let through, and a request is rejected with 422
\* only when a ruled field is invalid, with entries naming ruled fields
\* only, whatever the fields without a rule and the uploads hold.
C18_UnruledFieldsIgnored ==
  /\ \A r1, r2 \in Requests :
       (Validated(r1) /\ Validated(r2) /\ AgreeOnRuledFields(form[r1], form[r2])) =>
         /\ errors[r1] = errors[r2]
         /\ (response[r1].status = 422) <=> (response[r2].status = 422)
  /\ \A r \in Requests :
       Validated(r) =>
         /\ (response[r].status = 422) <=> (InvalidFields(form[r]) # {})
         /\ \A i \in 1..Len(errors[r]) : errors[r][i].field \in RuledFields

C18_Witness ==
  \E r1, r2 \in Requests :
    /\ r1 # r2
    /\ Validated(r1) /\ Validated(r2)
    /\ AgreeOnRuledFields(form[r1], form[r2])
    /\ form[r1]["latitude_arah"] = <<"a", "b", "c">>
    /\ form[r2]["latitude_arah"] = None
    /\ form[r1]["foto_tmat_1"] # form[r2]["foto_tmat_1"]
    /\ response[r1].status = 422
    /\ response[r2].status = 422

\* ------------------------------------------------------- unreadable uploads
\* an upload that is there and gives no bytes: b"" or a read that raises
GivesNoBytes(upload) == upload \in {UploadFile("empty"), UploadFile("readfails")}

\* C19: in the full handler a photo slot, or the site sketch, whose upload
\* is there but reads as zero bytes or whose read raises is rendered as
\* "(no image)", as an absent one is, never as "(error inserting image)",
\* and the request is not failed by it: no exception leaves the handler.
C19_NoBytesAsAbsent ==
  \A r \in Requests :
    Built(r) =>
      /\ response[r].status # 500
      /\ ~AnyRaised(doc[r])
      /\ \A row \in ImageRowsOf(doc[r]) :
           \A c \in 1..Len(row.cells) :
             (GivesNoBytes(form[r][row.keys[c]]) \/ form[r][row.keys[c]] = None)
               => (ShowsNoImage(row.cells[c]) /\ ~ShowsError(row.cells[c]))
      /\ \A k \in Range(photo_fields) :
           GivesNoBytes(form[r][k]) =>
             \E row \in ImageRowsOf(doc[r]) : \E c \in 1..Len(row.keys) : row.keys[c] = k
      /\ (GivesNoBytes(form[r]["sketsa_lokasi_image"])
            \/ form[r]["sketsa_lokasi_image"] = None) =>
           \A b \in SectionBlocksOf(doc[r]) :
             b.image # <<>> => (ShowsNoImage(b.image) /\ ~ShowsError(b.image))

C19_Witness ==
  /\ Built(1)
  /\ pc[1] = "background"
  /\ response[1].status = 200
  /\ form[1]["foto_drainase_alami"] = UploadFile("empty")
  /\ form[1]["foto_drainase_buatan"] = UploadFile("readfails")
  /\ \E row \in ImageRowsOf(doc[1]) :
       /\ row.keys = <<"foto_drainase_alami", "foto_drainase_buatan">>
       /\ ShowsNoImage(row.cells[1])
       /\ ShowsNoImage(row.cells[2])

====
